---- MODULE Spec2Model ----
(***************************************************************************)
(* Authorization, quota and rate-limiting engine of the WordPress MCP      *)
(* publisher: the rate limiter, session manager, audit logger and security *)
(* manager of mcp_wordpress/core/security.py, the role resolver of         *)
(* mcp_wordpress/services/role_template_service.py and the permission      *)
(* checker of mcp_wordpress/auth/permission_checker.py.                    *)
(*                                                                         *)
(* Clocks.  `now` is datetime.now(timezone.utc) of security.py, counted in *)
(* whole minutes; `utcnow` is datetime.utcnow() of permission_checker.py,  *)
(* counted in whole seconds.                                               *)
(***************************************************************************)
EXTENDS Integers, Sequences, FiniteSets, TLC

VARIABLES
    now,             \* security.py clock, in minutes
    minute_windows,  \* RateLimiter.minute_windows: defaultdict agent -> deque
    hour_windows,    \* RateLimiter.hour_windows:   defaultdict agent -> deque
    locked_agents,   \* RateLimiter.locked_agents:  dict agent -> lockout_until
    sessions,        \* SessionManager.sessions:    dict agent -> SessionInfo
    memory_log,      \* AuditLogger.memory_log:     deque(maxlen)
    ret,             \* the call that has just returned, and what it returned
                     \* (none once time has passed since)
    burst,           \* history: the calls an agent made since it was fresh
    authOk,          \* history: authenticate_request calls that returned
                     \* true since the agent's session was created
    touches,         \* history: the create_session calls for an agent since
                     \* its session was last ended, with the time of the
                     \* first and of the last of them
    utcnow,                \* permission_checker.py clock, in seconds
    agents_table,          \* table "agents": agent id -> Agent row
    role_templates_table,  \* table "role_templates": role id -> RoleTemplate row
    _agent_cache,          \* PermissionChecker._agent_cache
    _role_cache,           \* RoleTemplateService._role_cache
    articles_table,        \* table "articles": the Article rows, by id
    result,          \* the permission call that has just returned, and what it
                     \* returned (none once the store or the clock has changed)
    instance,        \* SecurityManager.instance: the object, or none
    constructed,     \* history: the SecurityManager objects constructed so far,
                     \* numbered from 1
    is_initialized,  \* SecurityManager.is_initialized
    cleanup_task,    \* SessionManager.cleanup_task: a task of `tasks`, or none
    tasks,           \* the _cleanup_loop tasks created on the event loop, in
                     \* order of creation, with the state of each
    stopping,        \* a cleanup() call is suspended in stop(), at
                     \* `await self.cleanup_task`
    in_flight        \* the submit_article calls that have passed
                     \* require_submit_permission and have not yet reached
                     \* `await session.commit()`: the calling agents

secVars == <<now, minute_windows, hour_windows, locked_agents, sessions,
             memory_log, ret, burst, authOk, touches>>

mgrVars == <<instance, constructed, is_initialized, cleanup_task, tasks, stopping>>

permVars == <<utcnow, agents_table, role_templates_table, _agent_cache,
              _role_cache, articles_table, result>>

vars == <<now, minute_windows, hour_windows, locked_agents, sessions,
          memory_log, ret, burst, authOk, touches, utcnow, agents_table,
          role_templates_table, _agent_cache, _role_cache, articles_table,
          result, instance, constructed, is_initialized, cleanup_task, tasks,
          stopping, in_flight>>

----------------------------------------------------------------------------
(* Bounds of the model and constants of the program.                       *)

Agents == {"a1", "a2"}
\* The agents that call in the specifications of the per-agent claims.
Callers == {"a1"}

\* RateLimitConfig fields; the limiter is written for any configuration.
RequestsPerMinute == 2
RequestsPerHour == 3
LockoutDurationMinutes == 2
\* AuditLogger(max_memory_entries)
MaxMemoryEntries == 3
\* The clock runs over 0..Slack and Hour..Hour+Slack.
Slack == 4

\* timedelta(minutes=1) and timedelta(hours=1), in minutes
Minute == 1
Hour == 60
\* SessionManager(session_timeout_minutes=60)
SessionTimeoutMinutes == 60

\* The instants the clock is observed at: the first minutes, and the same
\* minutes one hour later.
ClockValues == (0 .. Slack) \cup (Hour .. Hour + Slack)
TickSteps == {Minute, Hour}

----------------------------------------------------------------------------
(* Python containers.                                                      *)

\* defaultdict(deque)[k] read without creating the key, and dict.get
Get(m, k, default) == IF k \in DOMAIN m THEN m[k] ELSE default

\* d[k] = v
Put(m, k, v) == [x \in DOMAIN m \cup {k} |-> IF x = k THEN v ELSE m[x]]

\* del d[k]
Del(m, k) == [x \in DOMAIN m \ {k} |-> m[x]]

\* defaultdict(deque)[k]: the access creates the key with an empty deque
Touch(m, k) == IF k \in DOMAIN m THEN m ELSE Put(m, k, <<>>)

Last(s) == s[Len(s)]

EmptyMap == [x \in {} |-> 0]

----------------------------------------------------------------------------
(* The state of the security manager as one value, so that the methods     *)
(* below are functions from state to state.                                *)

St == [mw |-> minute_windows, hw |-> hour_windows, locked |-> locked_agents,
       sessions |-> sessions, log |-> memory_log]

Commit(s) ==
    /\ minute_windows' = s.mw
    /\ hour_windows' = s.hw
    /\ locked_agents' = s.locked
    /\ sessions' = s.sessions
    /\ memory_log' = s.log

----------------------------------------------------------------------------
(* AuditLogger and SecurityManager.log_audit_event                         *)

\* ip_address and user_agent are None in every entry this engine writes.
AuditLogEntry(timestamp, agent_id, action, resource, success, details) ==
    [timestamp |-> timestamp, agent_id |-> agent_id, action |-> action,
     resource |-> resource, success |-> success, details |-> details]

\* details=None, stored as {}
NoDetails == [none |-> TRUE]

\* A buffer that, once full, turns the new entry away.
LogEventKeepOldest(log, entry) ==
    IF Len(log) >= MaxMemoryEntries THEN log ELSE Append(log, entry)

\* deque(maxlen=max_memory_entries).append
log_event(log, entry) ==
    IF Len(log) >= MaxMemoryEntries
    THEN IF MaxMemoryEntries = 0 THEN log ELSE Append(Tail(log), entry)
    ELSE Append(log, entry)

log_audit_event(s, t, agent_id, action, resource, success, details) ==
    [s EXCEPT !.log =
        log_event(s.log, AuditLogEntry(t, agent_id, action, resource, success, details))]

----------------------------------------------------------------------------
(* RateLimiter                                                             *)

RECURSIVE PopOld(_, _)
\* while window and window[0] < cutoff: window.popleft()
PopOld(window, cutoff) ==
    IF window # <<>> /\ Head(window) < cutoff
    THEN PopOld(Tail(window), cutoff)
    ELSE window

\* A cleaner that forgets the hour window.
CleanMinuteOnly(s, agent_id, t) ==
    [s EXCEPT !.mw = Put(s.mw, agent_id, PopOld(Get(s.mw, agent_id, <<>>), t - Minute)),
              !.hw = Touch(s.hw, agent_id)]

_clean_windows(s, agent_id, t) ==
    [s EXCEPT !.mw = Put(s.mw, agent_id, PopOld(Get(s.mw, agent_id, <<>>), t - Minute)),
              !.hw = Put(s.hw, agent_id, PopOld(Get(s.hw, agent_id, <<>>), t - Hour))]

\* A lockout counted in hours instead of minutes.
ApplyLockoutHours(s, agent_id, t) ==
    LET lockout_until == t + LockoutDurationMinutes * Hour
        s1 == [s EXCEPT !.locked = Put(s.locked, agent_id, lockout_until)]
    IN  log_audit_event(s1, t, agent_id, "rate_limit_violation", "api", FALSE,
                        [lockout_until |-> lockout_until,
                         lockout_duration_minutes |-> LockoutDurationMinutes])

\* A lockout that takes every agent with a minute queue, not only the caller.
ApplyLockoutToAll(s, agent_id, t) ==
    LET lockout_until == t + LockoutDurationMinutes * Minute
        s1 == [s EXCEPT !.locked = [a \in DOMAIN s.mw \cup DOMAIN s.locked \cup {agent_id}
                                       |-> lockout_until]]
    IN  log_audit_event(s1, t, agent_id, "rate_limit_violation", "api", FALSE,
                        [lockout_until |-> lockout_until,
                         lockout_duration_minutes |-> LockoutDurationMinutes])

_apply_lockout(s, agent_id, t) ==
    LET lockout_until == t + LockoutDurationMinutes * Minute
        s1 == [s EXCEPT !.locked = Put(s.locked, agent_id, lockout_until)]
    IN  log_audit_event(s1, t, agent_id, "rate_limit_violation", "api", FALSE,
                        [lockout_until |-> lockout_until,
                         lockout_duration_minutes |-> LockoutDurationMinutes])

\* if agent_id in self.locked_agents and now < lockout_until
InLockout(s, agent_id, t) ==
    agent_id \in DOMAIN s.locked /\ t < s.locked[agent_id]

\* An expiry that leaves the entry in the map.
KeepExpiredLockout(s, agent_id) == s

\* the else branch: the lockout has expired, del self.locked_agents[agent_id]
ExpireLockout(s, agent_id) ==
    IF agent_id \in DOMAIN s.locked
    THEN [s EXCEPT !.locked = Del(s.locked, agent_id)]
    ELSE s

\* A rejection that counts the rejected call and extends the lockout.
RejectLockedAndExtend(s, agent_id, t) ==
    [ok |-> FALSE, why |-> "lockout", expired |-> FALSE,
     st |-> [s EXCEPT !.mw = Put(s.mw, agent_id, Append(Get(s.mw, agent_id, <<>>), t)),
                      !.locked = Put(s.locked, agent_id,
                                     t + LockoutDurationMinutes * Minute)]]

\* The call while the agent is in lockout: return False, nothing else.
RejectLocked(s, agent_id, t) ==
    [ok |-> FALSE, why |-> "lockout", expired |-> FALSE, st |-> s]

\* A limiter that tests the per-minute cap only.
CheckRateLimitMinuteOnly(s, agent_id, t) ==
    IF InLockout(s, agent_id, t)
    THEN RejectLocked(s, agent_id, t)
    ELSE LET expired == agent_id \in DOMAIN s.locked
             s1 == ExpireLockout(s, agent_id)
             s2 == _clean_windows(s1, agent_id, t)
         IN  IF Len(s2.mw[agent_id]) >= RequestsPerMinute
             THEN [ok |-> FALSE, why |-> "minute", expired |-> expired,
                   st |-> _apply_lockout(s2, agent_id, t)]
             ELSE [ok |-> TRUE, why |-> "ok", expired |-> expired,
                   st |-> [s2 EXCEPT !.mw[agent_id] = Append(@, t),
                                     !.hw[agent_id] = Append(@, t)]]

\* The result: ok is the value returned, why the branch that returned it,
\* expired whether the call found and removed an expired lockout.
\* A limiter that refuses only above the caps, not at them.
CheckRateLimitAboveCap(s, agent_id, t) ==
    IF InLockout(s, agent_id, t)
    THEN RejectLocked(s, agent_id, t)
    ELSE LET expired == agent_id \in DOMAIN s.locked
             s1 == ExpireLockout(s, agent_id)
             s2 == _clean_windows(s1, agent_id, t)
         IN  IF Len(s2.mw[agent_id]) > RequestsPerMinute
             THEN [ok |-> FALSE, why |-> "minute", expired |-> expired,
                   st |-> _apply_lockout(s2, agent_id, t)]
             ELSE IF Len(s2.hw[agent_id]) > RequestsPerHour
             THEN [ok |-> FALSE, why |-> "hour", expired |-> expired,
                   st |-> _apply_lockout(s2, agent_id, t)]
             ELSE [ok |-> TRUE, why |-> "ok", expired |-> expired,
                   st |-> [s2 EXCEPT !.mw[agent_id] = Append(@, t),
                                     !.hw[agent_id] = Append(@, t)]]

check_rate_limit(s, agent_id, t) ==
    IF InLockout(s, agent_id, t)
    THEN RejectLocked(s, agent_id, t)
    ELSE LET expired == agent_id \in DOMAIN s.locked
             s1 == ExpireLockout(s, agent_id)
             s2 == _clean_windows(s1, agent_id, t)
         IN  IF Len(s2.mw[agent_id]) >= RequestsPerMinute
             THEN [ok |-> FALSE, why |-> "minute", expired |-> expired,
                   st |-> _apply_lockout(s2, agent_id, t)]
             ELSE IF Len(s2.hw[agent_id]) >= RequestsPerHour
             THEN [ok |-> FALSE, why |-> "hour", expired |-> expired,
                   st |-> _apply_lockout(s2, agent_id, t)]
             ELSE [ok |-> TRUE, why |-> "ok", expired |-> expired,
                   st |-> [s2 EXCEPT !.mw[agent_id] = Append(@, t),
                                     !.hw[agent_id] = Append(@, t)]]

\* get_agent_status: the dictionary returned, and the state it leaves
get_agent_status(s, agent_id, t) ==
    LET s1 == _clean_windows(s, agent_id, t)
        minute_requests == Len(s1.mw[agent_id])
        hour_requests == Len(s1.hw[agent_id])
    IN  [status |->
            [minute_requests |-> minute_requests,
             hour_requests |-> hour_requests,
             is_locked |-> agent_id \in DOMAIN s1.locked,
             remaining_minute |-> IF RequestsPerMinute - minute_requests > 0
                                  THEN RequestsPerMinute - minute_requests ELSE 0,
             remaining_hour |-> IF RequestsPerHour - hour_requests > 0
                                THEN RequestsPerHour - hour_requests ELSE 0],
         st |-> s1]

----------------------------------------------------------------------------
(* History of the calls an agent makes from a fresh state (no lockout     *)
(* entry, no timestamps): n calls, oks of them allowed, all within one     *)
(* minute of the first (start); n = 0 when no such run is in progress.     *)

NoBurst == [n |-> 0, oks |-> 0, start |-> 0]

IsFresh(agent_id) ==
    /\ agent_id \notin DOMAIN locked_agents
    /\ Get(minute_windows, agent_id, <<>>) = <<>>
    /\ Get(hour_windows, agent_id, <<>>) = <<>>

BurstAfter(agent_id, ok) ==
    LET b == burst[agent_id]
        inc == IF ok THEN 1 ELSE 0
    IN  IF IsFresh(agent_id)
        THEN [n |-> 1, oks |-> inc, start |-> now]
        ELSE IF b.n > 0 /\ b.n <= RequestsPerMinute /\ now <= b.start + Minute
        THEN [n |-> b.n + 1, oks |-> b.oks + inc, start |-> b.start]
        ELSE NoBurst

----------------------------------------------------------------------------
(* Actions of the rate limiter.                                            *)

NoRet == [op |-> "none", agent |-> "none", ok |-> FALSE, why |-> "none",
          expired |-> FALSE, raised |-> FALSE]

\* No permission call has returned.
NoPermResult ==
    [op |-> "none", agent |-> "none", allowed |-> FALSE, reason |-> "none",
     remaining_quota |-> <<>>, permissions |-> EmptyMap, fail |-> {}]

\* No create_session call since the session was last ended.
NoTouches == [n |-> 0, first |-> 0, last |-> 0]

\* The history after a create_session call for the agent at time t.
Touched(agent_id, t) ==
    [touches EXCEPT ![agent_id] = [n |-> @.n + 1,
                                   first |-> IF @.n = 0 THEN t ELSE @.first,
                                   last |-> t]]

\* SecurityManager.instance = None
NoInstance == 0

\* The components of the security manager after construction.
InitComponents ==
    /\ now = 0
    /\ minute_windows = EmptyMap
    /\ hour_windows = EmptyMap
    /\ locked_agents = EmptyMap
    /\ sessions = EmptyMap
    /\ memory_log = <<>>
    /\ ret = NoRet
    /\ burst = [a \in Agents |-> NoBurst]
    /\ authOk = [a \in Agents |-> 0]
    /\ touches = [a \in Agents |-> NoTouches]

\* self.cleanup_task = None
NoTask == 0

\* The security manager after construction, before initialize(): the one
\* object, and no sweep task.
InitSecurity ==
    /\ InitComponents
    /\ instance = 1
    /\ constructed = 1
    /\ is_initialized = FALSE
    /\ cleanup_task = NoTask
    /\ tasks = <<>>
    /\ stopping = FALSE

\* The security manager after construction, beside an empty store.
Init ==
    /\ InitSecurity
    /\ utcnow = 0
    /\ in_flight = <<>>
    /\ agents_table = EmptyMap
    /\ role_templates_table = EmptyMap
    /\ _agent_cache = EmptyMap
    /\ _role_cache = EmptyMap
    /\ articles_table = <<>>
    /\ result = NoPermResult

\* Time passes.
Tick(d) ==
    /\ now + d \in ClockValues
    /\ now' = now + d
    /\ ret' = NoRet
    /\ UNCHANGED <<minute_windows, hour_windows, locked_agents, sessions,
                   memory_log, burst, authOk, touches>>
    /\ UNCHANGED <<permVars, mgrVars, in_flight>>

CheckRateLimit(agent_id) ==
    LET r == check_rate_limit(St, agent_id, now)
    IN  /\ Commit(r.st)
        /\ ret' = [op |-> "check_rate_limit", agent |-> agent_id, ok |-> r.ok,
                   why |-> r.why, expired |-> r.expired, raised |-> FALSE]
        /\ burst' = [burst EXCEPT ![agent_id] = BurstAfter(agent_id, r.ok)]
        /\ UNCHANGED <<now, authOk, touches>>
        /\ UNCHANGED <<permVars, mgrVars, in_flight>>

GetAgentStatus(agent_id) ==
    LET r == get_agent_status(St, agent_id, now)
    IN  /\ Commit(r.st)
        /\ ret' = [op |-> "get_agent_status", agent |-> agent_id,
                   ok |-> r.status.is_locked, why |-> "status",
                   expired |-> FALSE, raised |-> FALSE]
        /\ UNCHANGED <<now, burst, authOk, touches>>
        /\ UNCHANGED <<permVars, mgrVars, in_flight>>

Next ==
    \/ \E d \in TickSteps : Tick(d)
    \/ \E a \in Callers : CheckRateLimit(a)
    \/ \E a \in Callers : GetAgentStatus(a)

Spec == Init /\ [][Next]_vars

----------------------------------------------------------------------------
(* SessionManager                                                          *)

\* SessionInfo(agent_id, agent_name, created_at=now, last_activity=now,
\* request_count=1); lockout_until stays None
SessionInfo(agent_id, agent_name, t) ==
    [agent_id |-> agent_id, agent_name |-> agent_name, created_at |-> t,
     last_activity |-> t, request_count |-> 1, failed_attempts |-> 0,
     is_locked |-> FALSE]

\* A touch that restarts the count instead of adding to it.
CreateSessionRestartCount(s, agent_id, agent_name, t) ==
    IF agent_id \in DOMAIN s.sessions
    THEN [s EXCEPT !.sessions[agent_id] =
             [@ EXCEPT !.last_activity = t, !.request_count = 1]]
    ELSE log_audit_event(
             [s EXCEPT !.sessions =
                 Put(s.sessions, agent_id, SessionInfo(agent_id, agent_name, t))],
             t, agent_id, "session_created", "auth", TRUE,
             [agent_name |-> agent_name])

\* A call that keeps the count but moves created_at to the time of the call.
CreateSessionRestartClock(s, agent_id, agent_name, t) ==
    IF agent_id \in DOMAIN s.sessions
    THEN [s EXCEPT !.sessions[agent_id] =
             [@ EXCEPT !.created_at = t, !.last_activity = t, !.request_count = @ + 1]]
    ELSE log_audit_event(
             [s EXCEPT !.sessions =
                 Put(s.sessions, agent_id, SessionInfo(agent_id, agent_name, t))],
             t, agent_id, "session_created", "auth", TRUE,
             [agent_name |-> agent_name])

\* A create_session that logs session_created on a refresh as well.
CreateSessionLogsRefresh(s, agent_id, agent_name, t) ==
    log_audit_event(
        IF agent_id \in DOMAIN s.sessions
        THEN [s EXCEPT !.sessions[agent_id] =
                 [@ EXCEPT !.last_activity = t, !.request_count = @ + 1]]
        ELSE [s EXCEPT !.sessions =
                 Put(s.sessions, agent_id, SessionInfo(agent_id, agent_name, t))],
        t, agent_id, "session_created", "auth", TRUE, [agent_name |-> agent_name])

create_session(s, agent_id, agent_name, t) ==
    IF agent_id \in DOMAIN s.sessions
    THEN [s EXCEPT !.sessions[agent_id] =
             [@ EXCEPT !.last_activity = t, !.request_count = @ + 1]]
    ELSE log_audit_event(
             [s EXCEPT !.sessions =
                 Put(s.sessions, agent_id, SessionInfo(agent_id, agent_name, t))],
             t, agent_id, "session_created", "auth", TRUE,
             [agent_name |-> agent_name])

\* duration.total_seconds(), the clock counting minutes
TotalSeconds(minutes) == minutes * 60

end_session(s, agent_id, t) ==
    IF agent_id \in DOMAIN s.sessions
    THEN LET session == s.sessions[agent_id]
             duration == t - session.created_at
         IN  log_audit_event(
                 [s EXCEPT !.sessions = Del(s.sessions, agent_id)],
                 t, agent_id, "session_ended", "auth", TRUE,
                 [duration_seconds |-> TotalSeconds(duration),
                  request_count |-> session.request_count])
    ELSE s

----------------------------------------------------------------------------
(* SecurityManager.authenticate_request                                    *)
(*                                                                         *)
(* An unexpected error is an input of the call: fault names the call of    *)
(* the try block that raises ("none": no call does).  The call that raises *)
(* does so before it changes anything.                                     *)

Faults == {"rate_limiter", "session", "audit"}

\* A branch that lets the rate-limited request through to the session.
OnRateLimitedTouchSession(s, agent_id, agent_name, t, why, expired) ==
    [ok |-> FALSE, raised |-> FALSE, why |-> why, expired |-> expired,
     st |-> log_audit_event(create_session(s, agent_id, agent_name, t),
                            t, agent_id, "request_rate_limited", "api", FALSE,
                            NoDetails)]

\* if not await self.rate_limiter.check_rate_limit(agent_id): audit, return False
OnRateLimited(s, agent_id, agent_name, t, why, expired) ==
    [ok |-> FALSE, raised |-> FALSE, why |-> why, expired |-> expired,
     st |-> log_audit_event(s, t, agent_id, "request_rate_limited", "api", FALSE,
                            NoDetails)]

\* A handler that logs and lets the error through to the caller.
OnErrorReraise(s, agent_id, t, fault, expired) ==
    [ok |-> FALSE, raised |-> TRUE, why |-> "error", expired |-> expired,
     st |-> log_audit_event(s, t, agent_id, "authentication_error", "api", FALSE,
                            [error |-> fault])]

\* except Exception as e: audit authentication_error, return False
OnError(s, agent_id, t, fault, expired) ==
    [ok |-> FALSE, raised |-> FALSE, why |-> "error", expired |-> expired,
     st |-> log_audit_event(s, t, agent_id, "authentication_error", "api", FALSE,
                            [error |-> fault])]

authenticate_request(s, agent_id, agent_name, t, fault) ==
    IF fault = "rate_limiter"
    THEN OnError(s, agent_id, t, fault, FALSE)
    ELSE LET r == check_rate_limit(s, agent_id, t)
         IN  IF ~r.ok
             THEN OnRateLimited(r.st, agent_id, agent_name, t, r.why, r.expired)
             ELSE IF fault = "session"
             THEN OnError(r.st, agent_id, t, fault, r.expired)
             ELSE LET s1 == create_session(r.st, agent_id, agent_name, t)
                  IN  IF fault = "audit"
                      THEN OnError(s1, agent_id, t, fault, r.expired)
                      ELSE [ok |-> TRUE, raised |-> FALSE, why |-> "ok",
                            expired |-> r.expired,
                            st |-> log_audit_event(s1, t, agent_id,
                                       "request_authenticated", "api", TRUE,
                                       NoDetails)]

----------------------------------------------------------------------------
(* Actions of the security manager.                                        *)

\* middleware.py: authenticate_request(access_token.client_id, agent_name),
\* agent_name being the client id
AuthenticateRequest(agent_id, fault) ==
    LET r == authenticate_request(St, agent_id, agent_id, now, fault)
    IN  /\ Commit(r.st)
        /\ ret' = [op |-> "authenticate_request", agent |-> agent_id, ok |-> r.ok,
                   why |-> r.why, expired |-> r.expired, raised |-> r.raised]
        /\ authOk' = [authOk EXCEPT ![agent_id] = IF r.ok THEN @ + 1 ELSE @]
        /\ touches' = IF r.st.sessions # sessions THEN Touched(agent_id, now) ELSE touches
        /\ burst' = [burst EXCEPT ![agent_id] = NoBurst]
        /\ UNCHANGED now
        /\ UNCHANGED <<permVars, mgrVars, in_flight>>

\* tools/security.py: the administrative end of a session
EndSession(agent_id) ==
    /\ Commit(end_session(St, agent_id, now))
    /\ ret' = [op |-> "end_session", agent |-> agent_id, ok |-> TRUE,
               why |-> "none", expired |-> FALSE, raised |-> FALSE]
    /\ authOk' = [authOk EXCEPT ![agent_id] = 0]
    /\ touches' = [touches EXCEPT ![agent_id] = NoTouches]
    /\ UNCHANGED <<now, burst>>
    /\ UNCHANGED <<permVars, mgrVars, in_flight>>

NextAuth ==
    \/ \E d \in TickSteps : Tick(d)
    \/ \E a \in Callers : AuthenticateRequest(a, "none")
    \/ \E a \in Callers : EndSession(a)

\* Requests with no internal error.
SpecAuth == Init /\ [][NextAuth]_vars

\* Two bursts of requests, one hour apart: the lockout of the first has
\* expired and its timestamps are due for eviction in the second.
NextFault ==
    \/ Tick(Hour)
    \/ \E a \in Callers, f \in Faults \cup {"none"} : AuthenticateRequest(a, f)

\* Requests during which a call of the try block may raise.
SpecFault == Init /\ [][NextFault]_vars

----------------------------------------------------------------------------
(* Claims about the rate limiter, checked under Spec.                      *)

LockoutSpan == LockoutDurationMinutes * Minute

\* The entries of a window that are not older than the window's length.
Within(window, cutoff) == SelectSeq(window, LAMBDA x : x >= cutoff)

AllWithin(window, cutoff) == \A i \in 1 .. Len(window) : window[i] >= cutoff

\* C1: for a fresh agent and an hour cap above the minute cap N, of N+1
\* check_rate_limit calls made within one minute exactly the first N return
\* true; the (N+1)-th returns false and sets a lockout that expires
\* lockout_duration_minutes after that call.
C1_BurstIsCappedAndLocksOut ==
    \A a \in Agents :
        LET b == burst[a]
        IN  (RequestsPerHour > RequestsPerMinute /\ b.n > 0) =>
                /\ (b.n <= RequestsPerMinute => b.oks = b.n)
                /\ (b.n = RequestsPerMinute + 1 =>
                        /\ b.oks = RequestsPerMinute
                        /\ a \in DOMAIN locked_agents
                        /\ locked_agents[a] >= b.start + LockoutSpan
                        /\ locked_agents[a] <= b.start + Minute + LockoutSpan
                        /\ (ret.op = "check_rate_limit" /\ ret.agent = a) =>
                               (~ret.ok /\ locked_agents[a] = now + LockoutSpan))

C1_Witness ==
    \E a \in Agents :
        /\ burst[a].n = RequestsPerMinute + 1
        /\ ret.op = "check_rate_limit" /\ ret.agent = a
        /\ RequestsPerHour > RequestsPerMinute

\* C2: while the time is before A's lockout expiry every check_rate_limit(A)
\* returns false, whatever A's windows hold, and leaves A's minute queue,
\* hour queue and lockout expiry as they were.
C2_LockedCallDeniedUnchanged ==
    [][\A a \in Agents :
          (a \in DOMAIN locked_agents /\ now < locked_agents[a] /\ CheckRateLimit(a)) =>
              /\ ~ret'.ok
              /\ minute_windows' = minute_windows
              /\ hour_windows' = hour_windows
              /\ locked_agents' = locked_agents]_vars

\* A call denied by the lockout although both windows are below their caps.
C2_Witness ==
    \E a \in Agents :
        /\ ret.op = "check_rate_limit" /\ ret.agent = a /\ ret.why = "lockout"
        /\ a \in DOMAIN locked_agents /\ now < locked_agents[a]
        /\ Len(Within(Get(minute_windows, a, <<>>), now - Minute)) < RequestsPerMinute
        /\ Len(Within(Get(hour_windows, a, <<>>), now - Hour)) < RequestsPerHour
        /\ Get(minute_windows, a, <<>>) = <<>>

LockoutExpired(a) == a \in DOMAIN locked_agents /\ now >= locked_agents[a]

\* C3 as stated: the first check_rate_limit(A) at or after the lockout
\* expiry returns true and clears A's entry from the lockout map.
C3_FirstCallAfterExpirySucceeds ==
    [][\A a \in Agents :
          (LockoutExpired(a) /\ CheckRateLimit(a)) =>
              (ret'.ok /\ a \notin DOMAIN locked_agents')]_vars

\* C3 amended: the first check_rate_limit(A) at or after the lockout expiry
\* drops the expired entry and then decides by the windows: it returns true
\* and leaves A out of the lockout map iff, after trimming, the minute queue
\* is below requests_per_minute and the hour queue below requests_per_hour;
\* otherwise it returns false and locks A out again from the time of the call.
C3_FirstCallAfterExpiryDecidesByWindows ==
    [][\A a \in Agents :
          (LockoutExpired(a) /\ CheckRateLimit(a)) =>
              IF /\ Len(Within(Get(minute_windows, a, <<>>), now - Minute)) < RequestsPerMinute
                 /\ Len(Within(Get(hour_windows, a, <<>>), now - Hour)) < RequestsPerHour
              THEN ret'.ok /\ a \notin DOMAIN locked_agents'
              ELSE /\ ~ret'.ok
                   /\ a \in DOMAIN locked_agents'
                   /\ locked_agents'[a] = now + LockoutSpan]_vars

C3_Witness ==
    \E a \in Agents :
        /\ ret.op = "check_rate_limit" /\ ret.agent = a
        /\ ret.expired /\ ret.ok
        /\ a \notin DOMAIN locked_agents

\* C4 as stated: in every reachable state no minute queue holds a timestamp
\* older than one minute and no hour queue one older than one hour.
C4_WindowsAlwaysTrimmed ==
    \A a \in Agents :
        /\ AllWithin(Get(minute_windows, a, <<>>), now - Minute)
        /\ AllWithin(Get(hour_windows, a, <<>>), now - Hour)

\* C4 amended: when a check_rate_limit(A) that was not rejected by an active
\* lockout, or a get_agent_status(A), returns, A's minute queue holds no
\* timestamp older than one minute and A's hour queue none older than one
\* hour, relative to the time of the call.
C4_WindowsTrimmedWhenCleaned ==
    \A a \in Agents :
        (/\ ret.agent = a
         /\ ret.op \in {"check_rate_limit", "get_agent_status"}
         /\ ret.why # "lockout") =>
            /\ a \in DOMAIN minute_windows /\ a \in DOMAIN hour_windows
            /\ AllWithin(minute_windows[a], now - Minute)
            /\ AllWithin(hour_windows[a], now - Hour)

\* A call made more than an hour after the first timestamps were queued.
C4_Witness ==
    \E a \in Agents :
        /\ ret.agent = a /\ ret.op = "check_rate_limit" /\ ret.why # "lockout"
        /\ now > Hour
        /\ hour_windows[a] # <<>>
        /\ burst[a].n = 0

----------------------------------------------------------------------------
(* Claims about authenticate_request, checked under SpecAuth and SpecFault *)

\* C5: authenticate_request consults the rate limiter first: when the rate
\* limiter denies A the call returns false, appends a failed
\* request_rate_limited audit entry for A and leaves the session map as it
\* was (no session created, last_activity and request_count untouched).
C5_RateLimitedBeforeSession ==
    [][\A a \in Agents :
          (AuthenticateRequest(a, "none") /\ ~check_rate_limit(St, a, now).ok) =>
              /\ ~ret'.ok
              /\ memory_log' # <<>>
              /\ Last(memory_log') =
                     AuditLogEntry(now, a, "request_rate_limited", "api", FALSE, NoDetails)
              /\ sessions' = sessions]_vars

\* A rate-limited request of an agent that has a session.
C5_Witness ==
    \E a \in Agents :
        /\ ret.op = "authenticate_request" /\ ret.agent = a /\ ~ret.ok
        /\ ret.why \in {"lockout", "minute", "hour"}
        /\ a \in DOMAIN sessions
        /\ Last(memory_log).action = "request_rate_limited"

\* C6: absent internal errors authenticate_request(A) returns true iff the
\* rate limiter allowed the request; a call that returns true raises A's
\* session request_count by exactly one (a new session starts at 1) and
\* appends a successful request_authenticated entry; so request_count equals
\* the number of calls that returned true since the session was created.
C6_RequestCountCountsAllowedCalls ==
    /\ [](\A a \in Agents :
            IF a \in DOMAIN sessions
            THEN sessions[a].request_count = authOk[a]
            ELSE authOk[a] = 0)
    /\ [][\A a \in Agents :
            AuthenticateRequest(a, "none") =>
                /\ ret'.ok = check_rate_limit(St, a, now).ok
                /\ ret'.ok =>
                     /\ a \in DOMAIN sessions'
                     /\ sessions'[a].request_count =
                            IF a \in DOMAIN sessions
                            THEN sessions[a].request_count + 1
                            ELSE 1
                     /\ Last(memory_log') =
                            AuditLogEntry(now, a, "request_authenticated", "api",
                                          TRUE, NoDetails)]_vars

\* A session that has counted several requests, after an earlier one ended.
C6_Witness ==
    \E a \in Agents :
        /\ ret.op = "authenticate_request" /\ ret.agent = a /\ ret.ok
        /\ a \in DOMAIN sessions
        /\ sessions[a].request_count >= 2
        /\ sessions[a].created_at > 0

\* The call of the try block named by fault is reached and raises.
FaultRaised(a, fault) ==
    \/ fault = "rate_limiter"
    \/ fault \in {"session", "audit"} /\ check_rate_limit(St, a, now).ok

----------------------------------------------------------------------------
(* The store: rows of the tables "agents" and "role_templates", and the   *)
(* permission maps of their JSON columns.                                  *)

\* Optional[...] = None
None == "None"

TemplateIds == {"content_creator"}
Statuses == {"active", "inactive", "locked"}

CanSubmit == "can_submit_articles"
CanEditOwn == "can_edit_own_articles"
Permissions == {CanSubmit, CanEditOwn}

\* Strings that the code splits are sequences of characters.
TagA == <<"a">>

\* quota_limits.working_hours: Monday to Friday, 09:00 to 17:00
WorkingHours == [enabled |-> TRUE, working_days |-> {1, 2, 3, 4, 5},
                 start |-> <<9, 0>>, end |-> <<17, 0>>]

\* Permission maps as they are stored.
SubmitOnly == (CanSubmit :> TRUE)
EditNotSubmit == (CanSubmit :> FALSE) @@ (CanEditOwn :> TRUE)
Restricted ==
    (CanSubmit :> TRUE) @@ ("allowed_categories" :> {"tech"}) @@
    ("allowed_tags" :> {TagA}) @@
    ("quota_limits" :> [daily_articles |-> 1, monthly_articles |-> 2,
                        working_hours |-> WorkingHours])

PermissionMaps == {EmptyMap, SubmitOnly, EditNotSubmit, Restricted}
OverrideMaps == {EmptyMap, EditNotSubmit}
TemplateMaps == {EmptyMap, SubmitOnly, Restricted}

\* models/agent.py: the columns of Agent that the engine reads
AgentRow(status, permissions, role_template_id, permissions_override) ==
    [status |-> status, permissions |-> permissions,
     role_template_id |-> role_template_id,
     permissions_override |-> permissions_override]

NoAgent == AgentRow("none", EmptyMap, None, EmptyMap)

\* models/role_templates.py: the columns of RoleTemplate that the engine reads
RoleTemplate(permissions, is_active) ==
    [permissions |-> permissions, is_active |-> is_active]

AgentRows ==
    {AgentRow(st, p, r, o) : st \in Statuses, p \in PermissionMaps,
                             r \in {None} \cup TemplateIds, o \in OverrideMaps}

RoleTemplateRows == {RoleTemplate(p, act) : p \in TemplateMaps, act \in BOOLEAN}

\* The store and the two caches as one value.
PSt == [agents |-> agents_table, roles |-> role_templates_table,
        acache |-> _agent_cache, rcache |-> _role_cache]

CommitPerm(s) ==
    /\ agents_table' = s.agents
    /\ role_templates_table' = s.roles
    /\ _agent_cache' = s.acache
    /\ _role_cache' = s.rcache

\* The lookups of one call that raise are named by a set `fail`: "agent" the
\* agent lookup of the role resolver, "role" its template lookup, "get_agent"
\* the agent lookup of the permission checker, "daily" and "monthly" the
\* counts, "article" the article lookup, "timezone" the resolution of the
\* local time.

----------------------------------------------------------------------------
(* RoleTemplateService                                                     *)

\* {**role_permissions} followed by .update(permissions_override)
Merge(base, over) ==
    [k \in DOMAIN base \cup DOMAIN over |->
        IF k \in DOMAIN over THEN over[k] ELSE base[k]]

\* The role is cached on its first successful read and served from the
\* cache from then on; a missing or inactive role, and a lookup that
\* raises, give {}.
_get_role_permissions(s, role_id, fail) ==
    IF role_id \in DOMAIN s.rcache
    THEN [permissions |-> s.rcache[role_id].permissions, st |-> s]
    ELSE IF "role" \in fail
    THEN [permissions |-> EmptyMap, st |-> s]
    ELSE IF role_id \in DOMAIN s.roles /\ s.roles[role_id].is_active
    THEN [permissions |-> s.roles[role_id].permissions,
          st |-> [s EXCEPT !.rcache = Put(@, role_id, s.roles[role_id])]]
    ELSE [permissions |-> EmptyMap, st |-> s]

\* An agent's own permissions, with the override map applied as well.
OwnPermissionsWithOverride(agent) ==
    Merge(agent.permissions, agent.permissions_override)

\* return agent.permissions
OwnPermissions(agent) == agent.permissions

get_effective_permissions(s, agent_id, fail) ==
    IF "agent" \in fail
    THEN [permissions |-> EmptyMap, st |-> s]
    ELSE IF agent_id \notin DOMAIN s.agents
    THEN [permissions |-> EmptyMap, st |-> s]
    ELSE LET agent == s.agents[agent_id]
             r == _get_role_permissions(s, agent.role_template_id, fail)
         IN  IF agent.role_template_id = None
             THEN [permissions |-> OwnPermissions(agent), st |-> s]
             ELSE IF r.permissions = EmptyMap
             THEN [permissions |-> agent.permissions, st |-> r.st]
             ELSE IF agent.permissions_override # EmptyMap
             THEN [permissions |-> Merge(r.permissions, agent.permissions_override),
                   st |-> r.st]
             ELSE [permissions |-> r.permissions, st |-> r.st]

----------------------------------------------------------------------------
(* PermissionChecker                                                       *)

\* PermissionChecker._cache_ttl, in seconds
CacheTtl == 300
\* timedelta.seconds leaves the days of the difference out
SecondsPerDay == 86400

TimedeltaSeconds(d) == d % SecondsPerDay

_get_agent(s, agent_id, t, fail) ==
    IF /\ agent_id \in DOMAIN s.acache
       /\ TimedeltaSeconds(t - s.acache[agent_id].timestamp) < CacheTtl
    THEN [found |-> TRUE, agent |-> s.acache[agent_id].agent, st |-> s]
    ELSE IF "get_agent" \in fail
    THEN [found |-> FALSE, agent |-> NoAgent, st |-> s]
    ELSE IF agent_id \in DOMAIN s.agents
    THEN [found |-> TRUE, agent |-> s.agents[agent_id],
          st |-> [s EXCEPT !.acache =
                      Put(@, agent_id, [agent |-> s.agents[agent_id],
                                        timestamp |-> t])]]
    ELSE [found |-> FALSE, agent |-> NoAgent, st |-> s]

\* What a call reads outside the agents and role templates: the counts of
\* the agent's articles of today and of this month, the local weekday
\* (Monday = 0) and time of day in seconds, the owner of each article, and
\* the lookups that raise.
Env(fail, daily_count, monthly_count, weekday, time, articles) ==
    [fail |-> fail, daily_count |-> daily_count, monthly_count |-> monthly_count,
     weekday |-> weekday, time |-> time, articles |-> articles]

\* A count of today's articles that is never read.
DailyCountNeverRead(env) == 0

\* _get_daily_article_count and _get_monthly_article_count: 0 on an error
DailyCount(env) == IF "daily" \in env.fail THEN 0 ELSE env.daily_count
MonthlyCount(env) == IF "monthly" \in env.fail THEN 0 ELSE env.monthly_count

QuotaLimits(permissions) == Get(permissions, "quota_limits", EmptyMap)

_check_quota_limits(permissions, env) ==
    LET quota_limits == QuotaLimits(permissions)
        daily_limit == Get(quota_limits, "daily_articles", 0)
        monthly_limit == Get(quota_limits, "monthly_articles", 0)
    IN  IF DOMAIN quota_limits = {} THEN TRUE
        ELSE IF daily_limit > 0 /\ DailyCount(env) >= daily_limit THEN FALSE
        ELSE IF monthly_limit > 0 /\ MonthlyCount(env) >= monthly_limit THEN FALSE
        ELSE TRUE

\* max(0, x)
Max0(x) == IF x > 0 THEN x ELSE 0

\* PermissionCheckResult(allowed, reason, remaining_quota); the optional
\* remaining_quota is <<>> for None and <<map>> for a map.
PermissionCheckResult(allowed, reason, remaining_quota) ==
    [allowed |-> allowed, reason |-> reason, remaining_quota |-> remaining_quota]

_check_quota_limits_detailed(permissions, env) ==
    LET quota_limits == QuotaLimits(permissions)
        daily_limit == Get(quota_limits, "daily_articles", 0)
        monthly_limit == Get(quota_limits, "monthly_articles", 0)
        after_daily ==
            IF daily_limit > 0
            THEN Put(EmptyMap, "daily", Max0(daily_limit - DailyCount(env)))
            ELSE EmptyMap
        after_monthly ==
            IF monthly_limit > 0
            THEN Put(after_daily, "monthly", Max0(monthly_limit - MonthlyCount(env)))
            ELSE after_daily
    IN  IF DOMAIN quota_limits = {}
        THEN PermissionCheckResult(TRUE, "no_quota_limits", <<EmptyMap>>)
        ELSE IF daily_limit > 0 /\ DailyCount(env) >= daily_limit
        THEN PermissionCheckResult(FALSE, "daily_quota_exceeded", <<after_daily>>)
        ELSE IF monthly_limit > 0 /\ MonthlyCount(env) >= monthly_limit
        THEN PermissionCheckResult(FALSE, "monthly_quota_exceeded", <<after_monthly>>)
        ELSE PermissionCheckResult(TRUE, "quota_ok", <<after_monthly>>)

\* time.fromisoformat("HH:MM"), as seconds of the day
ParseTime(hm) == (hm[1] * 60 + hm[2]) * 60

\* time.fromisoformat raises unless the hour and the minute are in range.
ValidTime(hm) == hm[1] \in 0 .. 23 /\ hm[2] \in 0 .. 59

\* A window that ends before its last second.
InWindowExclusive(start_time, current_time, end_time) ==
    start_time <= current_time /\ current_time < end_time

\* start_time <= current_time <= end_time
InWindow(start_time, current_time, end_time) ==
    start_time <= current_time /\ current_time <= end_time

\* An error while resolving the time zone, or while parsing the window
\* once the weekday has passed, lets the request through.
_check_working_hours(permissions, env) ==
    LET working_hours == Get(QuotaLimits(permissions), "working_hours", EmptyMap)
        start == Get(working_hours, "start", <<0, 0>>)
        end == Get(working_hours, "end", <<23, 59>>)
    IN  IF ~Get(working_hours, "enabled", FALSE) THEN TRUE
        ELSE IF "timezone" \in env.fail THEN TRUE
        ELSE IF (env.weekday + 1) \notin Get(working_hours, "working_days", 1 .. 7)
        THEN FALSE
        ELSE IF ~ValidTime(start) \/ ~ValidTime(end) THEN TRUE
        ELSE InWindow(ParseTime(start), env.time, ParseTime(end))

\* not x, for an optional string
Falsy(x) == x \in {None, ""}

\* An article id is an integer, and the ids of rows are positive;
\* kwargs.get("article_id") of a context without the key is None, which
\* NoArticleId stands for.
NoArticleId == 0 - 1

\* not article_id: None and 0 alike
FalsyId(article_id) == article_id \in {NoArticleId, 0}

_check_ownership_detailed(agent_id, kwargs, env) ==
    LET article_id == Get(kwargs, "article_id", NoArticleId)
    IN  IF FalsyId(article_id)
        THEN PermissionCheckResult(TRUE, "no_ownership_check", <<>>)
        ELSE IF "article" \in env.fail
        THEN PermissionCheckResult(FALSE, "ownership_error", <<>>)
        ELSE IF article_id \notin DOMAIN env.articles
        THEN PermissionCheckResult(FALSE, "article_missing", <<>>)
        ELSE IF env.articles[article_id] = agent_id
        THEN PermissionCheckResult(TRUE, "owner", <<>>)
        ELSE PermissionCheckResult(FALSE, "not_owner", <<>>)

_check_ownership(agent_id, kwargs, env) ==
    LET article_id == Get(kwargs, "article_id", NoArticleId)
    IN  IF FalsyId(article_id) THEN TRUE
        ELSE IF "article" \in env.fail THEN FALSE
        ELSE IF article_id \notin DOMAIN env.articles THEN FALSE
        ELSE env.articles[article_id] = agent_id

RECURSIVE SplitOn(_, _)
\* str.split(sep): the pieces between the separators, empty pieces kept
SplitOn(str, sep) ==
    IF \A i \in 1 .. Len(str) : str[i] # sep
    THEN <<str>>
    ELSE LET i == CHOOSE i \in 1 .. Len(str) :
                      str[i] = sep /\ \A j \in 1 .. (i - 1) : str[j] # sep
         IN  <<SubSeq(str, 1, i - 1)>> \o SplitOn(SubSeq(str, i + 1, Len(str)), sep)

\* The string as it is.
NoStrip(str) == str

RECURSIVE Strip(_)
\* str.strip()
Strip(str) ==
    IF str # <<>> /\ Head(str) = " " THEN Strip(Tail(str))
    ELSE IF str # <<>> /\ str[Len(str)] = " " THEN Strip(SubSeq(str, 1, Len(str) - 1))
    ELSE str

\* [tag.strip() for tag in tags.split(',')]
TagList(tags) ==
    LET pieces == SplitOn(tags, ",")
    IN  [i \in 1 .. Len(pieces) |-> Strip(pieces[i])]

\* The tags of the request that are not empty and not allowed.
ForbiddenTags(tags, allowed_tags) ==
    SelectSeq(TagList(tags), LAMBDA tag : tag # <<>> /\ tag \notin allowed_tags)

\* The permissions column is free JSON: a value of allowed_categories or
\* allowed_tags that is no list but, say, true.  `x not in True` raises
\* TypeError.
NotAListOfCategories == {"<true>"}
NotAListOfTags == {<<"<true>">>}

\* The scope step raises: the category is tested against a value that is
\* no container, or, the category having passed, a tag is.
ScopeRaises(permissions, kwargs) ==
    LET category == Get(kwargs, "category", None)
        allowed_categories == Get(permissions, "allowed_categories", {})
        tags == Get(kwargs, "tags", <<>>)
        allowed_tags == Get(permissions, "allowed_tags", {})
    IN  /\ DOMAIN kwargs # {}
        /\ \/ ~Falsy(category) /\ allowed_categories = NotAListOfCategories
           \/ /\ Falsy(category) \/ allowed_categories = {}
                 \/ (allowed_categories # NotAListOfCategories
                     /\ category \in allowed_categories)
              /\ tags # <<>>
              /\ allowed_tags = NotAListOfTags
              /\ \E i \in 1 .. Len(TagList(tags)) : TagList(tags)[i] # <<>>

_check_scope_restrictions_detailed(permissions, kwargs) ==
    LET category == Get(kwargs, "category", None)
        allowed_categories == Get(permissions, "allowed_categories", {})
        tags == Get(kwargs, "tags", <<>>)
        allowed_tags == Get(permissions, "allowed_tags", {})
    IN  IF DOMAIN kwargs = {}
        THEN PermissionCheckResult(TRUE, "no_scope_check", <<>>)
        ELSE IF ScopeRaises(permissions, kwargs)
        THEN PermissionCheckResult(FALSE, "scope_error", <<>>)
        ELSE IF /\ ~Falsy(category)
                /\ allowed_categories # {}
                /\ category \notin allowed_categories
        THEN PermissionCheckResult(FALSE, "category_not_allowed", <<>>)
        ELSE IF /\ tags # <<>>
                /\ allowed_tags # {}
                /\ ForbiddenTags(tags, allowed_tags) # <<>>
        THEN PermissionCheckResult(FALSE, "tags_not_allowed", <<>>)
        ELSE PermissionCheckResult(TRUE, "scope_ok", <<>>)

\* An error lets the request through: except Exception: return True
_check_scope_restrictions(permissions, kwargs) ==
    LET category == Get(kwargs, "category", None)
        allowed_categories == Get(permissions, "allowed_categories", {})
        tags == Get(kwargs, "tags", <<>>)
        allowed_tags == Get(permissions, "allowed_tags", {})
    IN  IF DOMAIN kwargs = {} THEN TRUE
        ELSE IF ScopeRaises(permissions, kwargs) THEN TRUE
        ELSE IF /\ ~Falsy(category)
                /\ allowed_categories # {}
                /\ category \notin allowed_categories
        THEN FALSE
        ELSE IF /\ tags # <<>>
                /\ allowed_tags # {}
                /\ \E i \in 1 .. Len(TagList(tags)) :
                       /\ TagList(tags)[i] # <<>>
                       /\ TagList(tags)[i] \notin allowed_tags
        THEN FALSE
        ELSE TRUE

\* Steps 1 to 7 of check_permission; the caches keep what the lookups of
\* the steps reached have stored.
check_permission(s, agent_id, permission, check_ownership, check_quota, kwargs, t, env) ==
    LET g == _get_agent(s, agent_id, t, env.fail)
        e == get_effective_permissions(g.st, agent_id, env.fail)
        effective_permissions == e.permissions
    IN  IF ~g.found \/ g.agent.status # "active"
        THEN [allowed |-> FALSE, st |-> g.st]
        ELSE IF DOMAIN effective_permissions = {}
        THEN [allowed |-> FALSE, st |-> e.st]
        ELSE IF ~Get(effective_permissions, permission, FALSE)
        THEN [allowed |-> FALSE, st |-> e.st]
        ELSE IF check_quota /\ ~_check_quota_limits(effective_permissions, env)
        THEN [allowed |-> FALSE, st |-> e.st]
        ELSE IF ~_check_working_hours(effective_permissions, env)
        THEN [allowed |-> FALSE, st |-> e.st]
        ELSE IF /\ check_ownership
                /\ DOMAIN kwargs # {}
                /\ ~_check_ownership(agent_id, kwargs, env)
        THEN [allowed |-> FALSE, st |-> e.st]
        ELSE IF ~_check_scope_restrictions(effective_permissions, kwargs)
        THEN [allowed |-> FALSE, st |-> e.st]
        ELSE [allowed |-> TRUE, st |-> e.st]

check_permission_detailed(s, agent_id, permission, check_ownership, check_quota, kwargs, t, env) ==
    LET g == _get_agent(s, agent_id, t, env.fail)
        e == get_effective_permissions(g.st, agent_id, env.fail)
        effective_permissions == e.permissions
        quota_check == _check_quota_limits_detailed(effective_permissions, env)
        ownership_result == _check_ownership_detailed(agent_id, kwargs, env)
        scope_result == _check_scope_restrictions_detailed(effective_permissions, kwargs)
    IN  IF ~g.found
        THEN [res |-> PermissionCheckResult(FALSE, "not_found", <<>>), st |-> g.st]
        ELSE IF g.agent.status # "active"
        THEN [res |-> PermissionCheckResult(FALSE, g.agent.status, <<>>), st |-> g.st]
        ELSE IF DOMAIN effective_permissions = {}
        THEN [res |-> PermissionCheckResult(FALSE, "no_permissions", <<>>), st |-> e.st]
        ELSE IF ~Get(effective_permissions, permission, FALSE)
        THEN [res |-> PermissionCheckResult(FALSE, "missing_permission", <<>>),
              st |-> e.st]
        ELSE IF check_quota /\ ~quota_check.allowed
        THEN [res |-> quota_check, st |-> e.st]
        ELSE IF ~_check_working_hours(effective_permissions, env)
        THEN [res |-> PermissionCheckResult(FALSE, "outside_working_hours", <<>>),
              st |-> e.st]
        ELSE IF check_ownership /\ DOMAIN kwargs # {} /\ ~ownership_result.allowed
        THEN [res |-> ownership_result, st |-> e.st]
        ELSE IF ~scope_result.allowed
        THEN [res |-> scope_result, st |-> e.st]
        ELSE [res |-> PermissionCheckResult(
                          TRUE, "granted",
                          IF check_quota THEN quota_check.remaining_quota ELSE <<>>),
              st |-> e.st]

----------------------------------------------------------------------------
(* ConfigService: the writers of the agents table, and the editor of the   *)
(* role templates.                                                         *)

\* setattr(agent, field, value) for the fields the row has; an unknown
\* agent raises AgentNotFoundError
update_agent(s, agent_id, updates) ==
    IF agent_id \notin DOMAIN s.agents THEN s
    ELSE [s EXCEPT !.agents[agent_id] =
              [f \in DOMAIN @ |-> IF f \in DOMAIN updates THEN updates[f] ELSE @[f]]]

delete_agent(s, agent_id) ==
    IF agent_id \notin DOMAIN s.agents THEN s
    ELSE [s EXCEPT !.agents = Del(@, agent_id)]

\* A write to a row of role_templates by the management interface.
edit_role_template(s, role_id, updates) ==
    IF role_id \notin DOMAIN s.roles THEN s
    ELSE [s EXCEPT !.roles[role_id] =
              [f \in DOMAIN @ |-> IF f \in DOMAIN updates THEN updates[f] ELSE @[f]]]

----------------------------------------------------------------------------
(* Actions of the role resolver and the permission checker.                *)

\* The instants utcnow is observed at: the start, the cache TTL later, and
\* one second more than a day later.
UtcClockValues == {0, CacheTtl, SecondsPerDay + 1}

\* The owner of each article, by id.
Articles == <<"a1", "a2">>

\* A Wednesday at noon, no article counted yet.
QuietEnv == Env({}, 0, 0, 2, 12 * 3600, Articles)

Envs ==
    {QuietEnv,
     [QuietEnv EXCEPT !.daily_count = 1],
     [QuietEnv EXCEPT !.time = 20 * 3600],
     [QuietEnv EXCEPT !.fail = {"get_agent"}],
     [QuietEnv EXCEPT !.fail = {"agent"}],
     [QuietEnv EXCEPT !.fail = {"role"}]}

FailSets == {{}, {"agent"}, {"role"}}

KwargsValues ==
    {EmptyMap,
     ("article_id" :> 1) @@ ("category" :> "tech") @@
         ("tags" :> <<"a", ",", " ", "a">>),
     ("article_id" :> 2) @@ ("category" :> "news") @@
         ("tags" :> <<"a", ",", "b">>)}

StatusUpdates == {("status" :> st) : st \in Statuses}
OverrideUpdates == {("permissions_override" :> o) : o \in OverrideMaps}

RoleTemplateUpdates ==
    {("permissions" :> p) : p \in TemplateMaps} \cup
    {("is_active" :> act) : act \in BOOLEAN}

\* The role resolver beside a store with any agent row, or none, for the
\* caller and any row, or none, for the role template; its cache is empty.
InitRole ==
    /\ InitSecurity
    /\ utcnow = 0
    /\ in_flight = <<>>
    /\ agents_table \in {EmptyMap} \cup {(a :> row) : a \in Callers, row \in AgentRows}
    /\ role_templates_table \in
           {EmptyMap} \cup {(id :> row) : id \in TemplateIds, row \in RoleTemplateRows}
    /\ _agent_cache = EmptyMap
    /\ _role_cache = EmptyMap
    /\ articles_table = <<>>
    /\ result = NoPermResult

\* The agent rows of the store the permission checker starts beside.
CheckedAgentRows ==
    {AgentRow(st, p, r, EmptyMap) : st \in Statuses, p \in {SubmitOnly, Restricted},
                                    r \in {None} \cup TemplateIds}

\* The permission checker beside a store with one of these rows, or none,
\* for the caller and an active role template; both caches are empty.
InitPerm ==
    /\ InitSecurity
    /\ utcnow = 0
    /\ in_flight = <<>>
    /\ agents_table \in
           {EmptyMap} \cup {(a :> row) : a \in Callers, row \in CheckedAgentRows}
    /\ role_templates_table \in
           {(id :> RoleTemplate(SubmitOnly, TRUE)) : id \in TemplateIds}
    /\ _agent_cache = EmptyMap
    /\ _role_cache = EmptyMap
    /\ articles_table = <<>>
    /\ result = NoPermResult

\* Time passes.
UtcTick(t) ==
    /\ t \in UtcClockValues
    /\ t > utcnow
    /\ utcnow' = t
    /\ result' = NoPermResult
    /\ UNCHANGED <<agents_table, role_templates_table, _agent_cache, _role_cache,
                   articles_table>>
    /\ UNCHANGED <<secVars, mgrVars, in_flight>>

GetEffectivePermissions(agent_id, fail) ==
    LET r == get_effective_permissions(PSt, agent_id, fail)
    IN  /\ CommitPerm(r.st)
        /\ result' = [NoPermResult EXCEPT !.op = "get_effective_permissions",
                                          !.agent = agent_id,
                                          !.permissions = r.permissions,
                                          !.fail = fail]
        /\ UNCHANGED <<utcnow, articles_table>>
        /\ UNCHANGED <<secVars, mgrVars, in_flight>>

CheckPermission(agent_id, permission, check_ownership, check_quota, kwargs, env) ==
    LET r == check_permission(PSt, agent_id, permission, check_ownership,
                              check_quota, kwargs, utcnow, env)
    IN  /\ CommitPerm(r.st)
        /\ result' = [NoPermResult EXCEPT !.op = "check_permission",
                                          !.agent = agent_id,
                                          !.allowed = r.allowed,
                                          !.fail = env.fail]
        /\ UNCHANGED <<utcnow, articles_table>>
        /\ UNCHANGED <<secVars, mgrVars, in_flight>>

CheckPermissionDetailed(agent_id, permission, check_ownership, check_quota, kwargs, env) ==
    LET r == check_permission_detailed(PSt, agent_id, permission, check_ownership,
                                       check_quota, kwargs, utcnow, env)
    IN  /\ CommitPerm(r.st)
        /\ result' = [NoPermResult EXCEPT !.op = "check_permission_detailed",
                                          !.agent = agent_id,
                                          !.allowed = r.res.allowed,
                                          !.reason = r.res.reason,
                                          !.remaining_quota = r.res.remaining_quota,
                                          !.fail = env.fail]
        /\ UNCHANGED <<utcnow, articles_table>>
        /\ UNCHANGED <<secVars, mgrVars, in_flight>>

UpdateAgent(agent_id, updates) ==
    /\ CommitPerm(update_agent(PSt, agent_id, updates))
    /\ result' = NoPermResult
    /\ UNCHANGED <<utcnow, articles_table>>
    /\ UNCHANGED <<secVars, mgrVars, in_flight>>

DeleteAgent(agent_id) ==
    /\ CommitPerm(delete_agent(PSt, agent_id))
    /\ result' = NoPermResult
    /\ UNCHANGED <<utcnow, articles_table>>
    /\ UNCHANGED <<secVars, mgrVars, in_flight>>

EditRoleTemplate(role_id, updates) ==
    /\ CommitPerm(edit_role_template(PSt, role_id, updates))
    /\ result' = NoPermResult
    /\ UNCHANGED <<utcnow, articles_table>>
    /\ UNCHANGED <<secVars, mgrVars, in_flight>>

NextRole ==
    \/ \E a \in Callers, f \in FailSets : GetEffectivePermissions(a, f)
    \/ \E a \in Callers, u \in OverrideUpdates : UpdateAgent(a, u)
    \/ \E a \in Callers : DeleteAgent(a)
    \/ \E id \in TemplateIds, u \in RoleTemplateUpdates : EditRoleTemplate(id, u)

\* The role resolver while overrides and role templates are edited.
SpecRole == InitRole /\ [][NextRole]_vars

NextPerm ==
    \/ \E t \in UtcClockValues : UtcTick(t)
    \/ \E a \in Callers, p \in Permissions, own \in BOOLEAN, quota \in BOOLEAN,
          kw \in KwargsValues, env \in Envs :
           CheckPermission(a, p, own, quota, kw, env)
    \/ \E a \in Callers, p \in Permissions, own \in BOOLEAN, quota \in BOOLEAN,
          kw \in KwargsValues, env \in Envs :
           CheckPermissionDetailed(a, p, own, quota, kw, env)
    \/ \E a \in Callers, u \in StatusUpdates : UpdateAgent(a, u)
    \/ \E a \in Callers : DeleteAgent(a)

\* The permission checker while the status of agents is edited.
SpecPerm == InitPerm /\ [][NextPerm]_vars

----------------------------------------------------------------------------
(* Claims about the permission checker, checked under SpecPerm.            *)

\* The agent does not exist, or its stored status is not "active".
MissingOrInactive(a) ==
    a \notin DOMAIN agents_table \/ agents_table[a].status # "active"

\* C8: check_permission and check_permission_detailed deny, for every
\* permission name and every combination of options, whenever the agent does
\* not exist or its stored status is not "active" at the time of the call,
\* also when the status was changed after an earlier successful check.
C8_MissingOrInactiveAgentDenied ==
    \A a \in Agents :
        (/\ result.op \in {"check_permission", "check_permission_detailed"}
         /\ result.agent = a
         /\ MissingOrInactive(a)) => ~result.allowed

----------------------------------------------------------------------------
(* Claims about the role resolver, checked under SpecRole.                 *)

\* C9: for an agent with no role-template reference, whose lookup does not
\* fail, get_effective_permissions returns exactly the agent's own permission
\* map, same keys and same values; the override map is not applied.
C9_NoTemplateMeansOwnPermissions ==
    \A a \in Agents :
        (/\ result.op = "get_effective_permissions"
         /\ result.agent = a
         /\ "agent" \notin result.fail
         /\ a \in DOMAIN agents_table
         /\ agents_table[a].role_template_id = None) =>
            /\ DOMAIN result.permissions = DOMAIN agents_table[a].permissions
            /\ \A k \in DOMAIN result.permissions :
                   result.permissions[k] = agents_table[a].permissions[k]

\* An agent with no role template whose override map would change its own.
C9_Witness ==
    \E a \in Agents :
        /\ result.op = "get_effective_permissions" /\ result.agent = a
        /\ result.fail = {}
        /\ a \in DOMAIN agents_table
        /\ agents_table[a].role_template_id = None
        /\ agents_table[a].permissions = SubmitOnly
        /\ agents_table[a].permissions_override = EditNotSubmit
        /\ result.permissions = SubmitOnly

\* C10: for an agent with role template T and override map O,
\* get_effective_permissions equals T's permission map with each key of O
\* replacing the same key of T, the keys only in O added, and every key of T
\* absent from O passed through unchanged.
C10_TemplateMergedWithOverride ==
    \A a \in Agents, id \in TemplateIds :
        (/\ result.op = "get_effective_permissions"
         /\ result.agent = a
         /\ result.fail = {}
         /\ a \in DOMAIN agents_table
         /\ agents_table[a].role_template_id = id
         /\ id \in DOMAIN role_templates_table
         /\ role_templates_table[id].is_active) =>
            LET T == role_templates_table[id].permissions
                O == agents_table[a].permissions_override
                E == result.permissions
            IN  /\ DOMAIN E = DOMAIN T \cup DOMAIN O
                /\ \A k \in DOMAIN O : E[k] = O[k]
                /\ \A k \in DOMAIN T \ DOMAIN O : E[k] = T[k]

\* The lookup of the role template that agent a references fails: the
\* template is missing or inactive, or the lookup is made and raises.
RoleLookupFails(a) ==
    /\ a \in DOMAIN agents_table
    /\ agents_table[a].role_template_id # None
    /\ LET id == agents_table[a].role_template_id
       IN  \/ id \notin DOMAIN role_templates_table
           \/ ~role_templates_table[id].is_active
           \/ "role" \in result.fail /\ id \notin DOMAIN _role_cache

\* C11: get_effective_permissions is fail-closed: whenever the agent lookup
\* fails, or the agent references a role template whose lookup fails (the
\* template is missing or inactive, or the lookup raises), the result is the
\* empty permission map.
C11_LookupFailureGivesEmptyMap ==
    \A a \in Agents :
        (/\ result.op = "get_effective_permissions"
         /\ result.agent = a
         /\ \/ "agent" \in result.fail
            \/ a \notin DOMAIN agents_table
            \/ RoleLookupFails(a)) => DOMAIN result.permissions = {}

\* The effective permissions computed from the stored rows alone, with
\* nothing cached.
ComputedFromStore(a, fail) ==
    get_effective_permissions([PSt EXCEPT !.rcache = EmptyMap], a, fail).permissions

\* C12: effective permissions are never stale across an edit: after any edit
\* of a role template's permission map or active flag, or of an agent's
\* override map, the next get_effective_permissions returns the value
\* computed from the template and override as stored after the edit, even if
\* the template was read, and cached, before the edit (calls none of whose
\* lookups raises).
C12_NeverStaleAcrossEdit ==
    \A a \in Agents :
        (/\ result.op = "get_effective_permissions"
         /\ result.agent = a
         /\ result.fail = {}) => result.permissions = ComputedFromStore(a, {})

----------------------------------------------------------------------------
(* The quota step on its own: _check_quota_limits and its detailed variant *)
(* applied to permission maps with any caps and to any counts.             *)

\* The largest cap and the largest count of articles tried.
MaxCap == 2
MaxCount == 2

QuotaLimitValues ==
    {EmptyMap} \cup
    {("daily_articles" :> d) : d \in 0 .. MaxCap} \cup
    {("monthly_articles" :> m) : m \in 0 .. MaxCap} \cup
    {("daily_articles" :> d) @@ ("monthly_articles" :> m) :
         d \in 0 .. MaxCap, m \in 0 .. MaxCap}

\* Permission maps that grant submission, without and with quota limits.
QuotaPermissionMaps ==
    {SubmitOnly} \cup {SubmitOnly @@ ("quota_limits" :> q) : q \in QuotaLimitValues}

QuotaEnvs ==
    {Env(f, d, m, 2, 12 * 3600, Articles) :
         f \in {{}, {"daily"}, {"monthly"}}, d \in 0 .. MaxCount, m \in 0 .. MaxCount}

CheckQuotaLimits(permissions, env) ==
    /\ result' = [op |-> "_check_quota_limits", permissions |-> permissions,
                  env |-> env, allowed |-> _check_quota_limits(permissions, env),
                  remaining_quota |-> <<>>]
    /\ UNCHANGED <<utcnow, agents_table, role_templates_table, _agent_cache, _role_cache, articles_table>>
    /\ UNCHANGED <<secVars, mgrVars, in_flight>>

CheckQuotaLimitsDetailed(permissions, env) ==
    LET r == _check_quota_limits_detailed(permissions, env)
    IN  /\ result' = [op |-> "_check_quota_limits_detailed",
                      permissions |-> permissions, env |-> env,
                      allowed |-> r.allowed, remaining_quota |-> r.remaining_quota]
        /\ UNCHANGED <<utcnow, agents_table, role_templates_table, _agent_cache, _role_cache, articles_table>>
        /\ UNCHANGED <<secVars, mgrVars, in_flight>>

NextQuota ==
    \/ \E p \in QuotaPermissionMaps, env \in QuotaEnvs : CheckQuotaLimits(p, env)
    \/ \E p \in QuotaPermissionMaps, env \in QuotaEnvs : CheckQuotaLimitsDetailed(p, env)

\* Quota checks for any caps and counts.
SpecQuota == Init /\ [][NextQuota]_vars

\* The caps of the permission map the last quota check was given.
DailyCap == Get(QuotaLimits(result.permissions), "daily_articles", 0)
MonthlyCap == Get(QuotaLimits(result.permissions), "monthly_articles", 0)

\* The monthly cap does not deny the last quota check.
MonthlyCapPasses == MonthlyCap = 0 \/ MonthlyCount(result.env) < MonthlyCap

\* C13: with daily_articles = N > 0 the quota check is allowed iff the
\* agent's count of today is below N (the monthly cap not denying): it denies
\* at count >= N, allows at N - 1 reporting a remaining daily allowance of 1,
\* and always reports max(0, N - count) as remaining daily allowance; a daily
\* cap of 0, or none, never denies, whatever the count.  Stated for checks
\* whose count of today is read without an error.
C13_DailyQuota ==
    (/\ result.op \in {"_check_quota_limits", "_check_quota_limits_detailed"}
     /\ "daily" \notin result.env.fail) =>
        LET N == DailyCap
            count == result.env.daily_count
        IN  /\ N > 0 =>
                /\ count >= N => ~result.allowed
                /\ (count < N /\ MonthlyCapPasses) => result.allowed
                /\ result.op = "_check_quota_limits_detailed" =>
                       /\ result.remaining_quota # <<>>
                       /\ "daily" \in DOMAIN result.remaining_quota[1]
                       /\ result.remaining_quota[1]["daily"] =
                              (IF N - count > 0 THEN N - count ELSE 0)
            /\ N = 0 => (result.allowed <=> MonthlyCapPasses)

\* A check at one below the cap: allowed, with one article remaining today.
C13_Witness ==
    /\ result.op = "_check_quota_limits_detailed"
    /\ result.env.fail = {}
    /\ DailyCap = 2
    /\ result.env.daily_count = 1
    /\ result.allowed
    /\ result.remaining_quota[1]["daily"] = 1

----------------------------------------------------------------------------
(* Submission: the articles table, the counts read from it, the guard      *)
(* require_submit_permission and the tool submit_article.                  *)
(*                                                                         *)
(* created_at is datetime.now(timezone.utc) and the day of a count is      *)
(* datetime.now().date(): the server's local zone is taken to be UTC, so   *)
(* that both are read off utcnow.                                          *)

\* The calendar of the model: months of this many days, day 0 a Monday.
DaysPerMonth == 30
\* submit_article: len(title) > 200 is refused
MaxTitleLength == 200
\* The largest number of rows of the articles table.
MaxArticles == 3

Day(t) == t \div SecondsPerDay
TimeOfDay(t) == t % SecondsPerDay
Weekday(t) == Day(t) % 7

\* today.replace(day=1): day 1 of the month of t, at the time of day of t
MonthStart(t) == t - (Day(t) % DaysPerMonth) * SecondsPerDay

\* An article row that records no submitting agent.
NewArticleAnonymous(agent_id, t) == [submitting_agent_id |-> None, created_at |-> t]

\* Article(submitting_agent_id=agent_id, ...), created_at defaulting to now
NewArticle(agent_id, t) == [submitting_agent_id |-> agent_id, created_at |-> t]

\* select count(Article.id) where submitting_agent_id = agent_id and
\* date(created_at) = today
CountToday(articles, agent_id, t) ==
    Cardinality({i \in 1 .. Len(articles) :
                    /\ articles[i].submitting_agent_id = agent_id
                    /\ Day(articles[i].created_at) = Day(t)})

\* select count(Article.id) where submitting_agent_id = agent_id and
\* created_at >= month_start
CountThisMonth(articles, agent_id, t) ==
    Cardinality({i \in 1 .. Len(articles) :
                    /\ articles[i].submitting_agent_id = agent_id
                    /\ articles[i].created_at >= MonthStart(t)})

\* What a call made by agent_id at time t reads from the articles table and
\* the clock.
StoreEnv(articles, agent_id, t, fail) ==
    Env(fail, CountToday(articles, agent_id, t), CountThisMonth(articles, agent_id, t),
        Weekday(t), TimeOfDay(t),
        [i \in 1 .. Len(articles) |-> articles[i].submitting_agent_id])

\* The reason of a result of the guard: a code, and the count and limit
\* that a quota denial reports.
Reason(code, count, limit) == [code |-> code, count |-> count, limit |-> limit]

\* f"日配额超限: {daily_count}/{daily_limit}" and f"月配额超限: ..."
QuotaReason(permissions, env) ==
    LET quota_limits == QuotaLimits(permissions)
        daily_limit == Get(quota_limits, "daily_articles", 0)
        monthly_limit == Get(quota_limits, "monthly_articles", 0)
    IN  IF daily_limit > 0 /\ DailyCount(env) >= daily_limit
        THEN Reason("daily_quota_exceeded", DailyCount(env), daily_limit)
        ELSE Reason("monthly_quota_exceeded", MonthlyCount(env), monthly_limit)

\* The public check: the agent comes from _get_agent, and its id is read
\* when a count is made; with no agent that read raises, which the detailed
\* check turns into a denial.
check_quota_limits_detailed(s, agent_id, permissions, t, env) ==
    LET g == _get_agent(s, agent_id, t, env.fail)
        quota_limits == QuotaLimits(permissions)
        counts == \/ Get(quota_limits, "daily_articles", 0) > 0
                  \/ Get(quota_limits, "monthly_articles", 0) > 0
    IN  IF ~g.found /\ DOMAIN quota_limits # {} /\ counts
        THEN [res |-> PermissionCheckResult(FALSE, "quota_check_failed", <<>>),
              st |-> g.st]
        ELSE [res |-> _check_quota_limits_detailed(permissions, env), st |-> g.st]

\* The wrapper of require_submit_permission up to the call of the tool.
require_submit_permission(s, agent_id, kwargs, t, env) ==
    LET e == get_effective_permissions(s, agent_id, env.fail)
        effective_permissions == e.permissions
        q == check_quota_limits_detailed(e.st, agent_id, effective_permissions, t, env)
    IN  IF Falsy(agent_id)
        THEN [passed |-> FALSE, reason |-> Reason("no_access_token", 0, 0), st |-> s]
        ELSE IF ~Get(effective_permissions, CanSubmit, FALSE)
        THEN [passed |-> FALSE, reason |-> Reason("missing_permission", 0, 0),
              st |-> e.st]
        ELSE IF ~_check_scope_restrictions(effective_permissions, kwargs)
        THEN [passed |-> FALSE, reason |-> Reason("scope_not_allowed", 0, 0),
              st |-> e.st]
        ELSE IF ~q.res.allowed
        THEN [passed |-> FALSE,
              reason |-> IF q.res.reason = "quota_check_failed"
                         THEN Reason("quota_check_failed", 0, 0)
                         ELSE QuotaReason(effective_permissions, env),
              st |-> q.st]
        ELSE IF ~_check_working_hours(effective_permissions, env)
        THEN [passed |-> FALSE, reason |-> Reason("outside_working_hours", 0, 0),
              st |-> q.st]
        ELSE [passed |-> TRUE, reason |-> Reason("granted", 0, 0), st |-> q.st]

\* A title or a content, as its length and its length once stripped.
Text(len, stripped) == [len |-> len, stripped |-> stripped]

\* The arguments of submit_article.
SubmitInput(title, content_markdown, tags, category) ==
    [title |-> title, content_markdown |-> content_markdown, tags |-> tags,
     category |-> category]

\* The input validation of submit_article.
ValidSubmission(input) ==
    /\ input.title.len <= MaxTitleLength
    /\ input.title.stripped # 0
    /\ input.content_markdown.stripped # 0

\* The tool behind its guard: the outcome, the reason of a denial, and the
\* articles table and caches after the call.
submit_article(s, articles, agent_id, input, t, fail) ==
    LET guard == require_submit_permission(s, agent_id, input, t,
                                           StoreEnv(articles, agent_id, t, fail))
    IN  IF ~guard.passed
        THEN [outcome |-> "denied", reason |-> guard.reason, articles |-> articles,
              st |-> guard.st]
        ELSE IF ~ValidSubmission(input)
        THEN [outcome |-> "validation_error", reason |-> guard.reason,
              articles |-> articles, st |-> guard.st]
        ELSE [outcome |-> "success", reason |-> guard.reason,
              articles |-> Append(articles, NewArticle(agent_id, t)), st |-> guard.st]

GoodText == Text(5, 5)

SubmitInputs ==
    {SubmitInput(GoodText, GoodText, <<>>, ""),
     SubmitInput(GoodText, GoodText, <<"a", ",", " ", "a">>, "tech"),
     SubmitInput(GoodText, GoodText, <<"a", ",", "b">>, "news"),
     SubmitInput(Text(2, 0), GoodText, <<>>, ""),
     SubmitInput(Text(MaxTitleLength + 1, MaxTitleLength + 1), GoodText, <<>>, ""),
     SubmitInput(GoodText, Text(0, 0), <<>>, "")}

\* Permission maps that grant submission up to a daily cap.
DailyQuotaMaps ==
    {SubmitOnly @@ ("quota_limits" :> ("daily_articles" :> d)) : d \in 1 .. MaxCap}

SubmitterRows ==
    {AgentRow(st, p, None, EmptyMap) :
         st \in Statuses,
         p \in {SubmitOnly, EditNotSubmit, Restricted} \cup DailyQuotaMaps}

\* Submissions start beside a store with one agent row and no article.
InitSubmit ==
    /\ InitSecurity
    /\ utcnow = 0
    /\ in_flight = <<>>
    /\ agents_table \in {(a :> row) : a \in Callers, row \in SubmitterRows}
    /\ role_templates_table = EmptyMap
    /\ _agent_cache = EmptyMap
    /\ _role_cache = EmptyMap
    /\ articles_table = <<>>
    /\ result = NoPermResult

Submit(agent_id, input, fail) ==
    LET r == submit_article(PSt, articles_table, agent_id, input, utcnow, fail)
    IN  /\ Len(articles_table) < MaxArticles
        /\ CommitPerm(r.st)
        /\ articles_table' = r.articles
        /\ result' = [op |-> "submit_article", agent |-> agent_id,
                      outcome |-> r.outcome, reason |-> r.reason]
        /\ UNCHANGED utcnow
        /\ UNCHANGED <<secVars, mgrVars, in_flight>>

NextSubmit ==
    \/ \E t \in UtcClockValues : UtcTick(t)
    \/ \E a \in Callers, input \in SubmitInputs, f \in {{}, {"get_agent"}} :
           Submit(a, input, f)

\* An agent submitting articles as time passes.
SpecSubmit == InitSubmit /\ [][NextSubmit]_vars

\* An active agent whose own permissions grant submission up to a daily
\* cap and restrict nothing else.
HasDailyQuotaOnly(a) ==
    /\ a \in DOMAIN agents_table
    /\ agents_table[a].status = "active"
    /\ agents_table[a].permissions \in DailyQuotaMaps

----------------------------------------------------------------------------
(* The ownership step of check_permission.                                 *)

\* An agent that may edit its own articles, within working hours.
EditInHours ==
    EditNotSubmit @@ ("quota_limits" :> ("working_hours" :> WorkingHours))

OwnerRows ==
    {AgentRow(st, p, None, EmptyMap) : st \in Statuses, p \in {EditNotSubmit, EditInHours}}

\* Contexts of an edit: none, one without an article id, the caller's
\* article, another agent's, an id with no row, and the id 0.
OwnershipKwargs ==
    {EmptyMap, ("category" :> "tech")} \cup
    {("article_id" :> id) : id \in 0 .. (Len(Articles) + 1)}

OwnershipEnvs ==
    {QuietEnv, [QuietEnv EXCEPT !.fail = {"article"}], [QuietEnv EXCEPT !.time = 20 * 3600]}

InitOwnership ==
    /\ InitSecurity
    /\ utcnow = 0
    /\ in_flight = <<>>
    /\ agents_table \in {(a :> row) : a \in Callers, row \in OwnerRows}
    /\ role_templates_table = EmptyMap
    /\ _agent_cache = EmptyMap
    /\ _role_cache = EmptyMap
    /\ articles_table = <<>>
    /\ result = NoPermResult

NextOwnership ==
    \/ \E t \in UtcClockValues : UtcTick(t)
    \/ \E a \in Callers, own \in BOOLEAN, kw \in OwnershipKwargs, env \in OwnershipEnvs :
           CheckPermission(a, CanEditOwn, own, FALSE, kw, env)
    \/ \E a \in Callers, own \in BOOLEAN, kw \in OwnershipKwargs, env \in OwnershipEnvs :
           CheckPermissionDetailed(a, CanEditOwn, own, FALSE, kw, env)
    \/ \E a \in Callers, u \in StatusUpdates : UpdateAgent(a, u)
    \/ \E a \in Callers : DeleteAgent(a)

\* Edit checks with ownership while the status of the agent is edited.
SpecOwnership == InitOwnership /\ [][NextOwnership]_vars

\* The stored agent is active and its own permissions grant the editing
\* of its own articles.
ActiveEditor(a) ==
    /\ a \in DOMAIN agents_table
    /\ agents_table[a].status = "active"
    /\ Get(agents_table[a].permissions, CanEditOwn, FALSE)

\* What the other steps of check_permission decide for the same call.
OtherSteps(a, kw, env) ==
    check_permission(PSt, a, CanEditOwn, FALSE, FALSE, kw, utcnow, env).allowed

\* C15: for an active agent A holding can_edit_own_articles, a call
\* check_permission(A, can_edit_own_articles, check_ownership, context):
\* when ownership is requested and the context carries a resource id R,
\* the call is denied if R has no row, if the lookup fails or if the owner
\* of R is not A, and if the owner is A the other steps decide; when
\* ownership is not requested or the context carries no resource id, the
\* other steps decide.
C15_OwnershipStep ==
    [][\A a \in Agents, own \in BOOLEAN, kw \in OwnershipKwargs, env \in OwnershipEnvs :
          (/\ ActiveEditor(a)
           /\ CheckPermission(a, CanEditOwn, own, FALSE, kw, env)) =>
              IF own /\ "article_id" \in DOMAIN kw
              THEN LET R == kw["article_id"]
                   IN  IF \/ R \notin DOMAIN env.articles
                          \/ "article" \in env.fail
                          \/ env.articles[R] # a
                       THEN ~result'.allowed
                       ELSE result'.allowed = OtherSteps(a, kw, env)
              ELSE result'.allowed = OtherSteps(a, kw, env)]_vars

----------------------------------------------------------------------------
(* The scope step: categories and tags.                                    *)

\* The longest tag string of a context.
MaxTagLen == 3

TagB == <<"b">>
TagAB == <<"a", "b">>

\* The characters of a tag string.
TagChars == {"a", "b", ",", " "}

TagStrings == UNION {[1 .. n -> TagChars] : n \in 0 .. MaxTagLen}

AllowedCategoryLists == {{}, {"tech"}, {"tech", "news"}}
AllowedTagLists == {{}, {TagA}, {TagA, TagAB}}

\* Permission maps with and without each of the two allow-lists.
ScopePermissionMaps ==
    {c @@ g : c \in {EmptyMap} \cup {("allowed_categories" :> l) : l \in AllowedCategoryLists},
              g \in {EmptyMap} \cup {("allowed_tags" :> l) : l \in AllowedTagLists}}

\* Contexts with and without a category and a tag string.
ScopeKwargs ==
    {c @@ g : c \in {EmptyMap} \cup {("category" :> x) : x \in {"", "tech", "lifestyle"}},
              g \in {EmptyMap} \cup {("tags" :> x) : x \in TagStrings}}

\* A call of the scope step about to be made.
InitScope ==
    /\ InitSecurity
    /\ utcnow = 0
    /\ in_flight = <<>>
    /\ agents_table = EmptyMap
    /\ role_templates_table = EmptyMap
    /\ _agent_cache = EmptyMap
    /\ _role_cache = EmptyMap
    /\ articles_table = <<>>
    /\ result \in [op : {"call"}, permissions : ScopePermissionMaps, kwargs : ScopeKwargs,
                   allowed : {FALSE}, reason : {"none"}]

CheckScopeRestrictions ==
    /\ result.op = "call"
    /\ result' = [result EXCEPT
                      !.op = "_check_scope_restrictions",
                      !.allowed = _check_scope_restrictions(result.permissions, result.kwargs)]
    /\ UNCHANGED <<utcnow, agents_table, role_templates_table, _agent_cache, _role_cache,
                   articles_table>>
    /\ UNCHANGED <<secVars, mgrVars, in_flight>>

CheckScopeRestrictionsDetailed ==
    LET r == _check_scope_restrictions_detailed(result.permissions, result.kwargs)
    IN  /\ result.op = "call"
        /\ result' = [result EXCEPT !.op = "_check_scope_restrictions_detailed",
                                    !.allowed = r.allowed,
                                    !.reason = r.reason]
        /\ UNCHANGED <<utcnow, agents_table, role_templates_table, _agent_cache,
                       _role_cache, articles_table>>
        /\ UNCHANGED <<secVars, mgrVars, in_flight>>

NextScope ==
    \/ CheckScopeRestrictions
    \/ CheckScopeRestrictionsDetailed

\* The scope step applied to a permission map and a context.
SpecScope == InitScope /\ [][NextScope]_vars

\* The trimmed, non-empty tags of a comma-separated string: for each
\* stretch between commas, what lies between its first and last character
\* that is not a space.
TrimmedTags(str) ==
    LET commas == {i \in 1 .. Len(str) : str[i] = ","}
        stretches == {<<i, j>> \in (1 .. Len(str)) \X (1 .. Len(str)) :
                         /\ i <= j
                         /\ \A x \in i .. j : x \notin commas
                         /\ i = 1 \/ (i - 1) \in commas
                         /\ j = Len(str) \/ (j + 1) \in commas}
        inked(st) == {x \in st[1] .. st[2] : str[x] # " "}
        first(st) == CHOOSE x \in inked(st) : \A y \in inked(st) : x <= y
        last(st) == CHOOSE x \in inked(st) : \A y \in inked(st) : y <= x
    IN  {SubSeq(str, first(st), last(st)) : st \in {st \in stretches : inked(st) # {}}}

\* The category of the context is absent, or the list of allowed
\* categories is empty, or the category is in the list.
CategoryInScope(permissions, kwargs) ==
    \/ "category" \notin DOMAIN kwargs
    \/ kwargs["category"] = ""
    \/ Get(permissions, "allowed_categories", {}) = {}
    \/ kwargs["category"] \in permissions["allowed_categories"]

\* The tag string of the context is absent, or the list of allowed tags is
\* empty, or every trimmed, non-empty tag is in the list.
TagsInScope(permissions, kwargs) ==
    \/ "tags" \notin DOMAIN kwargs
    \/ Get(permissions, "allowed_tags", {}) = {}
    \/ TrimmedTags(kwargs["tags"]) \subseteq permissions["allowed_tags"]

\* C16: the scope step, in both variants, denies exactly when the context
\* carries a category, the list of allowed categories is not empty and the
\* category is not in it (allowed [tech]: lifestyle is denied, tech is
\* not), or the context carries a tag string, the list of allowed tags is
\* not empty and some trimmed, non-empty tag is not in it; an empty list of
\* allowed categories lets any category through.
C16_ScopeStep ==
    result.op \in {"_check_scope_restrictions", "_check_scope_restrictions_detailed"} =>
        (result.allowed <=> /\ CategoryInScope(result.permissions, result.kwargs)
                            /\ TagsInScope(result.permissions, result.kwargs))

\* Allowed [tech], category lifestyle and a string of allowed tags with
\* spaces and an empty piece: denied for the category.
C16_Witness ==
    /\ result.op = "_check_scope_restrictions"
    /\ Get(result.permissions, "allowed_categories", {}) = {"tech"}
    /\ Get(result.kwargs, "category", "") = "lifestyle"
    /\ Get(result.permissions, "allowed_tags", {}) = {TagA}
    /\ Get(result.kwargs, "tags", <<>>) = <<" ", "a", ",">>
    /\ ~result.allowed

----------------------------------------------------------------------------
(* The working-hours step.                                                 *)

\* Working-hours maps: switched on, off or silent about it, with and
\* without days and ends of the window; 25:00 is no time of day.
WorkingHoursMaps ==
    {e @@ d @@ st @@ en :
        e \in {EmptyMap} \cup {("enabled" :> b) : b \in BOOLEAN},
        d \in {EmptyMap} \cup {("working_days" :> days) : days \in {1 .. 5, {6, 7}, {}}},
        st \in {EmptyMap} \cup {("start" :> hm) : hm \in {<<9, 0>>, <<25, 0>>}},
        en \in {EmptyMap} \cup {("end" :> hm) : hm \in {<<17, 0>>, <<8, 30>>}}}

HoursPermissionMaps ==
    {EmptyMap} \cup {("quota_limits" :> ("working_hours" :> wh)) : wh \in WorkingHoursMaps}

\* Local times of day, in seconds: midnight, the ends of the windows and
\* the seconds beside them, noon, and the last minute of the day.
LocalTimes ==
    {0, 9 * 3600 - 1, 9 * 3600, 12 * 3600, 17 * 3600, 17 * 3600 + 1,
     23 * 3600 + 59 * 60, 23 * 3600 + 59 * 60 + 1}

HoursEnvs ==
    {Env(f, 0, 0, wd, tm, <<>>) :
        f \in {{}, {"timezone"}}, wd \in 0 .. 6, tm \in LocalTimes}

\* A call of the working-hours step about to be made.
InitHours ==
    /\ InitSecurity
    /\ utcnow = 0
    /\ in_flight = <<>>
    /\ agents_table = EmptyMap
    /\ role_templates_table = EmptyMap
    /\ _agent_cache = EmptyMap
    /\ _role_cache = EmptyMap
    /\ articles_table = <<>>
    /\ result \in [op : {"call"}, permissions : HoursPermissionMaps, env : HoursEnvs,
                   allowed : {FALSE}]

CheckWorkingHours ==
    /\ result.op = "call"
    /\ result' = [result EXCEPT
                      !.op = "_check_working_hours",
                      !.allowed = _check_working_hours(result.permissions, result.env)]
    /\ UNCHANGED <<utcnow, agents_table, role_templates_table, _agent_cache, _role_cache,
                   articles_table>>
    /\ UNCHANGED <<secVars, mgrVars, in_flight>>

\* The public check_working_hours, which the guards call.
CheckWorkingHoursPublic ==
    /\ result.op = "call"
    /\ result' = [result EXCEPT
                      !.op = "check_working_hours",
                      !.allowed = _check_working_hours(result.permissions, result.env)]
    /\ UNCHANGED <<utcnow, agents_table, role_templates_table, _agent_cache, _role_cache,
                   articles_table>>
    /\ UNCHANGED <<secVars, mgrVars, in_flight>>

NextHours ==
    \/ CheckWorkingHours
    \/ CheckWorkingHoursPublic

\* The working-hours step applied to a permission map at a local time.
SpecHours == InitHours /\ [][NextHours]_vars

\* The working-hours map of the call that returned.
CalledHours == Get(Get(result.permissions, "quota_limits", EmptyMap), "working_hours", EmptyMap)

\* The window of the call that returned cannot be parsed.
WindowRaises ==
    \E hm \in {Get(CalledHours, "start", <<0, 0>>), Get(CalledHours, "end", <<23, 59>>)} :
        hm[1] > 23 \/ hm[2] > 59

\* The local weekday of the call, 1 = Monday .. 7 = Sunday, is a working day.
OnWorkingDay == (result.env.weekday + 1) \in Get(CalledHours, "working_days", 1 .. 7)

\* The local time of the call lies in [start, end].
InsideHours ==
    LET start == Get(CalledHours, "start", <<0, 0>>)
        end == Get(CalledHours, "end", <<23, 59>>)
    IN  /\ start[1] * 3600 + start[2] * 60 <= result.env.time
        /\ result.env.time <= end[1] * 3600 + end[2] * 60

\* C17: with working hours enabled the step denies exactly when the local
\* weekday (1 = Monday .. 7 = Sunday) is not a working day or the local
\* time of day is outside the inclusive interval [start, end]; when the
\* time zone cannot be resolved, or the window cannot be parsed once the
\* weekday has passed, the step allows.
C17_WorkingHoursStep ==
    (/\ result.op \in {"_check_working_hours", "check_working_hours"}
     /\ Get(CalledHours, "enabled", FALSE)) =>
        IF "timezone" \in result.env.fail THEN result.allowed
        ELSE IF ~OnWorkingDay THEN ~result.allowed
        ELSE IF WindowRaises THEN result.allowed
        ELSE result.allowed <=> InsideHours

\* A Monday at 17:00:00 of a 9-to-17 week is let through.
C17_Witness ==
    /\ result.op = "_check_working_hours"
    /\ CalledHours = [enabled |-> TRUE, working_days |-> 1 .. 5,
                      start |-> <<9, 0>>, end |-> <<17, 0>>]
    /\ result.env.fail = {}
    /\ result.env.weekday = 0
    /\ result.env.time = 17 * 3600
    /\ result.allowed

----------------------------------------------------------------------------
(* SessionManager: create_session called directly, and the idle sweep.     *)
(*                                                                         *)
(* No await of create_session, end_session, log_audit_event or log_event   *)
(* reaches a point where the coroutine is suspended, so each of these and  *)
(* a whole sweep cycle runs without another coroutine of the event loop    *)
(* running in between: each is one action.                                 *)

\* The most create_session calls made for one session of a caller; the
\* session of another agent is created and not touched again.
MaxTouches == 3
TouchLimit(agent_id) == IF agent_id \in Callers THEN MaxTouches ELSE 1

\* A sweep that goes by the age of the session, not by its last activity.
IsExpiredSinceCreation(session, t) == t - session.created_at > SessionTimeoutMinutes

\* A sweep that also takes the sessions idle for exactly the timeout.
IsExpiredAtTimeout(session, t) == t - session.last_activity >= SessionTimeoutMinutes

\* now - session.last_activity > self.session_timeout
IsExpired(session, t) == t - session.last_activity > SessionTimeoutMinutes

\* expired_sessions, as a set
ExpiredSessions(s, t) == {a \in DOMAIN s.sessions : IsExpired(s.sessions[a], t)}

\* The orders a set can be listed in.
Orders(S) ==
    {order \in [1 .. Cardinality(S) -> S] :
        \A i, j \in 1 .. Cardinality(S) : order[i] = order[j] => i = j}

RECURSIVE EndSessions(_, _, _)
\* for agent_id in expired_sessions: await self.end_session(agent_id)
EndSessions(s, expired_sessions, t) ==
    IF expired_sessions = <<>> THEN s
    ELSE EndSessions(end_session(s, Head(expired_sessions), t), Tail(expired_sessions), t)

\* The sessions dict is listed in the order of insertion, which the map of
\* the model does not keep: expired_sessions is the expired set in the
\* order given.
_cleanup_expired_sessions(s, t, expired_sessions) == EndSessions(s, expired_sessions, t)

CreateSession(agent_id, agent_name) ==
    /\ touches[agent_id].n < TouchLimit(agent_id)
    /\ Commit(create_session(St, agent_id, agent_name, now))
    /\ ret' = [op |-> "create_session", agent |-> agent_id, ok |-> TRUE,
               why |-> "none", expired |-> FALSE, raised |-> FALSE]
    /\ touches' = Touched(agent_id, now)
    /\ UNCHANGED <<now, burst, authOk>>
    /\ UNCHANGED <<permVars, mgrVars, in_flight>>

\* One cycle of _cleanup_loop, after its sleep.
Sweep ==
    \E expired_sessions \in Orders(ExpiredSessions(St, now)) :
        /\ Commit(_cleanup_expired_sessions(St, now, expired_sessions))
        /\ ret' = [op |-> "_cleanup_expired_sessions", agent |-> "none", ok |-> TRUE,
                   why |-> "none", expired |-> expired_sessions # <<>>, raised |-> FALSE]
        /\ touches' = [a \in Agents |->
                          IF a \in ExpiredSessions(St, now) THEN NoTouches ELSE touches[a]]
        /\ authOk' = [a \in Agents |->
                         IF a \in ExpiredSessions(St, now) THEN 0 ELSE authOk[a]]
        /\ UNCHANGED <<now, burst>>
        /\ UNCHANGED <<permVars, mgrVars, in_flight>>

NextSession ==
    \/ \E d \in TickSteps : Tick(d)
    \/ \E a \in Agents : CreateSession(a, a)
    \/ Sweep

\* Sessions touched and swept as time passes.
SpecSession == Init /\ [][NextSession]_vars

\* C18: after k >= 1 successive create_session calls for an agent that had
\* no session, with no end or sweep of the session in between, there is one
\* session record of the agent, its request_count is k, its created_at is
\* the time of the first call and its last_activity the time of the last;
\* and an agent with no such call has no session.
C18_SessionIdempotence ==
    \A a \in Agents :
        IF touches[a].n = 0
        THEN a \notin DOMAIN sessions
        ELSE /\ a \in DOMAIN sessions
             /\ sessions[a].agent_id = a
             /\ sessions[a].request_count = touches[a].n
             /\ sessions[a].created_at = touches[a].first
             /\ sessions[a].last_activity = touches[a].last

\* Two calls, at different times: one record with request_count 2.
C18_Witness ==
    \E a \in Agents :
        /\ ret.op = "create_session" /\ ret.agent = a
        /\ touches[a] = [n |-> 2, first |-> 0, last |-> 1]
        /\ sessions[a].request_count = 2
        /\ sessions[a].created_at = 0
        /\ sessions[a].last_activity = 1

\* The sessions idle for longer than the timeout.
IdleTooLong ==
    {a \in DOMAIN sessions : now - sessions[a].last_activity > SessionTimeoutMinutes}

\* The session_ended entry of a session removed now.
SessionEndedEntry(a) ==
    AuditLogEntry(now, a, "session_ended", "auth", TRUE,
                  [duration_seconds |-> (now - sessions[a].created_at) * 60,
                   request_count |-> sessions[a].request_count])

\* C19: when a sweep cycle completes, the sessions that were idle for
\* longer than the timeout are gone from the session map, every other
\* session is as it was, and the audit log has received one session_ended
\* entry for each removed session, carrying its duration and request_count
\* (the log keeping its newest entries); nothing else was logged.
C19_IdleSweep ==
    [][Sweep =>
          LET n == Cardinality(IdleTooLong)
              len == Len(memory_log')
          IN  /\ DOMAIN sessions' = DOMAIN sessions \ IdleTooLong
              /\ \A a \in DOMAIN sessions' : sessions'[a] = sessions[a]
              /\ n <= MaxMemoryEntries
              /\ len = IF Len(memory_log) + n > MaxMemoryEntries
                       THEN MaxMemoryEntries ELSE Len(memory_log) + n
              /\ \A a \in IdleTooLong :
                     Cardinality({i \in (len - n + 1) .. len :
                                     memory_log'[i] = SessionEndedEntry(a)}) = 1
              /\ \A i \in 1 .. (len - n) :
                     memory_log'[i] = memory_log[Len(memory_log) - (len - n) + i]]_vars

\* A sweep at minute 61 has removed the session of a1, last active at
\* minute 0 after two requests, and has left the session of a2, idle for
\* exactly the timeout.
C19_Witness ==
    /\ ret.op = "_cleanup_expired_sessions"
    /\ now = SessionTimeoutMinutes + 1
    /\ DOMAIN sessions = {"a2"}
    /\ sessions["a2"].last_activity = 1
    /\ Last(memory_log) =
           AuditLogEntry(now, "a1", "session_ended", "auth", TRUE,
                         [duration_seconds |-> (SessionTimeoutMinutes + 1) * 60,
                          request_count |-> 2])

\* C20: however the sweep cycles and the create_session calls for an
\* agent follow one another, a session that goes away was, at the moment of
\* its removal, idle for longer than the session timeout, counted from the
\* last create_session call that completed for it; and a create_session
\* call that completes leaves the session in place, active as of the call.
C20_NoEvictionWhileRefreshed ==
    [][\A a \in Agents :
          /\ (a \in DOMAIN sessions /\ a \notin DOMAIN sessions') =>
                 /\ now - sessions[a].last_activity > SessionTimeoutMinutes
                 /\ touches[a].n > 0
                 /\ now - touches[a].last > SessionTimeoutMinutes
          /\ CreateSession(a, a) =>
                 /\ a \in DOMAIN sessions'
                 /\ sessions'[a].last_activity = now
                 /\ sessions'[a].request_count = touches[a].n + 1]_vars

\* A session created at minute 0 is touched at minute 61, and the sweep
\* that follows leaves it in place.
C20_Witness ==
    \E a \in Agents :
        /\ ret.op = "_cleanup_expired_sessions"
        /\ now = SessionTimeoutMinutes + 1
        /\ a \in DOMAIN sessions
        /\ sessions[a].created_at = 0
        /\ sessions[a].last_activity = now
        /\ touches[a].n >= 2

----------------------------------------------------------------------------
(* AuditLogger.log_event called n times.                                   *)

\* The entries handed to log_event: two events of one agent and one of
\* another.
LoggedEntries ==
    {AuditLogEntry(0, "a1", "request_authenticated", "api", TRUE, NoDetails),
     AuditLogEntry(1, "a1", "request_rate_limited", "api", FALSE, NoDetails),
     AuditLogEntry(1, "a2", "session_created", "auth", TRUE, [agent_name |-> "a2"])}

\* The calls go two past the capacity of the buffer.
MaxLogged == MaxMemoryEntries + 2

\* The entries to be logged, in order, and how many of them have been.
InitAudit ==
    /\ InitSecurity
    /\ utcnow = 0
    /\ in_flight = <<>>
    /\ agents_table = EmptyMap
    /\ role_templates_table = EmptyMap
    /\ _agent_cache = EmptyMap
    /\ _role_cache = EmptyMap
    /\ articles_table = <<>>
    /\ result \in [op : {"call"}, done : {0},
                   entries : UNION {[1 .. n -> LoggedEntries] : n \in 0 .. MaxLogged}]

\* The next log_event call.
LogEvent ==
    /\ result.op \in {"call", "log_event"}
    /\ result.done < Len(result.entries)
    /\ memory_log' = log_event(memory_log, result.entries[result.done + 1])
    /\ result' = [result EXCEPT !.op = "log_event", !.done = @ + 1]
    /\ UNCHANGED <<now, minute_windows, hour_windows, locked_agents, sessions, ret, burst,
                   authOk, touches>>
    /\ UNCHANGED <<utcnow, agents_table, role_templates_table, _agent_cache, _role_cache,
                   articles_table>>
    /\ UNCHANGED <<mgrVars, in_flight>>

NextAudit == LogEvent

\* log_event called with one entry after another.
SpecAudit == InitAudit /\ [][NextAudit]_vars

\* C21: after n log_event calls the log holds the most recent
\* min(n, capacity) entries, in the order they were logged: it is never
\* longer than the capacity, and after capacity + 1 calls it holds capacity
\* entries, the first one logged being gone.
C21_AuditRingBuffer ==
    LET n == result.done
        kept == IF n < MaxMemoryEntries THEN n ELSE MaxMemoryEntries
    IN  /\ Len(memory_log) = kept
        /\ Len(memory_log) <= MaxMemoryEntries
        /\ \A i \in 1 .. kept : memory_log[i] = result.entries[n - kept + i]

\* capacity + 1 entries logged, the first unlike the rest: it is gone.
C21_Witness ==
    /\ result.op = "log_event"
    /\ result.done = MaxMemoryEntries + 1
    /\ \A i \in 2 .. result.done : result.entries[i] # result.entries[1]
    /\ Len(memory_log) = MaxMemoryEntries
    /\ \A i \in 1 .. Len(memory_log) : memory_log[i] # result.entries[1]

----------------------------------------------------------------------------
(* SecurityManager: the singleton, initialize() and cleanup().             *)
(*                                                                         *)
(* The constructor, get_instance() and initialize() reach no suspension    *)
(* point and are one action each.  cleanup() is suspended in stop() at     *)
(* `await self.cleanup_task` until the cancelled task has finished: it is  *)
(* the actions Cleanup and CleanupReturn, with TaskExit and the steps of   *)
(* other coroutines in between.  initialize() and cleanup() are called one *)
(* after the other: none begins while a cleanup() is suspended.            *)

\* The most objects a run constructs, and the most sweep tasks it creates.
MaxObjects == 2
MaxTasks == 3

\* A constructor that does not look at SecurityManager.instance.
SecurityManagerInitUnchecked(inst, n) ==
    [raised |-> FALSE, instance |-> n + 1, constructed |-> n + 1]

\* SecurityManager.__init__: the object constructed is number n + 1
SecurityManager_init(inst, n) ==
    IF inst # NoInstance
    THEN [raised |-> TRUE, instance |-> inst, constructed |-> n]
    ELSE [raised |-> FALSE, instance |-> n + 1, constructed |-> n + 1]

get_instance(inst, n) ==
    IF inst = NoInstance
    THEN LET c == SecurityManager_init(inst, n)
         IN  [value |-> c.instance, instance |-> c.instance, constructed |-> c.constructed]
    ELSE [value |-> inst, instance |-> inst, constructed |-> n]

\* The fields of the manager and of its session manager, and the tasks.
Mgr == [is_initialized |-> is_initialized, cleanup_task |-> cleanup_task, tasks |-> tasks]

CommitMgr(m) ==
    /\ is_initialized' = m.is_initialized
    /\ cleanup_task' = m.cleanup_task
    /\ tasks' = m.tasks

\* SessionManager.start: asyncio.create_task(self._cleanup_loop()); the task
\* sleeps between its sweeps
start(m) ==
    IF m.cleanup_task = NoTask
    THEN [m EXCEPT !.tasks = Append(@, "sleeping"), !.cleanup_task = Len(m.tasks) + 1]
    ELSE m

\* An initialize() that does not look at is_initialized.
InitializeUnguarded(s, m, t) ==
    [m |-> [start(m) EXCEPT !.is_initialized = TRUE],
     st |-> log_audit_event(s, t, "system", "security_manager_initialized", "system",
                            TRUE, NoDetails)]

initialize(s, m, t) ==
    IF m.is_initialized THEN [m |-> m, st |-> s]
    ELSE [m |-> [start(m) EXCEPT !.is_initialized = TRUE],
          st |-> log_audit_event(s, t, "system", "security_manager_initialized", "system",
                                 TRUE, NoDetails)]

\* self.cleanup_task.cancel(): a sleeping task is to receive CancelledError
cancel(m) ==
    [m EXCEPT !.tasks[m.cleanup_task] = IF @ = "sleeping" THEN "cancelling" ELSE @]

\* stop() from `self.cleanup_task = None`, and cleanup() after stop()
cleanup_return(m) == [m EXCEPT !.cleanup_task = NoTask, !.is_initialized = FALSE]

\* SecurityManager()
Construct ==
    LET c == SecurityManager_init(instance, constructed)
    IN  /\ constructed < MaxObjects
        /\ instance' = c.instance
        /\ constructed' = c.constructed
        /\ ret' = [op |-> "SecurityManager", value |-> c.instance, raised |-> c.raised]
        /\ UNCHANGED <<is_initialized, cleanup_task, tasks, stopping>>
        /\ UNCHANGED <<now, minute_windows, hour_windows, locked_agents, sessions,
                       memory_log, burst, authOk, touches>>
        /\ UNCHANGED <<permVars, in_flight>>

GetInstance ==
    LET g == get_instance(instance, constructed)
    IN  /\ constructed < MaxObjects
        /\ instance' = g.instance
        /\ constructed' = g.constructed
        /\ ret' = [op |-> "get_instance", value |-> g.value, raised |-> FALSE]
        /\ UNCHANGED <<is_initialized, cleanup_task, tasks, stopping>>
        /\ UNCHANGED <<now, minute_windows, hour_windows, locked_agents, sessions,
                       memory_log, burst, authOk, touches>>
        /\ UNCHANGED <<permVars, in_flight>>

\* SecurityManager.get_instance().initialize()
Initialize ==
    LET r == initialize(St, Mgr, now)
    IN  /\ instance # NoInstance
        /\ ~stopping
        /\ Len(tasks) < MaxTasks
        /\ CommitMgr(r.m)
        /\ Commit(r.st)
        /\ ret' = [op |-> "initialize", value |-> instance, raised |-> FALSE]
        /\ UNCHANGED <<now, burst, authOk, touches, instance, constructed, stopping>>
        /\ UNCHANGED <<permVars, in_flight>>

\* cleanup() up to its return, or up to its suspension in stop().
Cleanup ==
    LET waits == /\ is_initialized
                 /\ cleanup_task # NoTask
                 /\ tasks[cleanup_task] # "done"
    IN  /\ instance # NoInstance
        /\ ~stopping
        /\ CommitMgr(IF ~is_initialized THEN Mgr
                     ELSE IF cleanup_task = NoTask THEN cleanup_return(Mgr)
                     ELSE IF waits THEN cancel(Mgr)
                     ELSE cleanup_return(cancel(Mgr)))
        /\ stopping' = waits
        /\ ret' = [op |-> IF waits THEN "none" ELSE "cleanup", value |-> instance,
                   raised |-> FALSE]
        /\ UNCHANGED <<now, minute_windows, hour_windows, locked_agents, sessions,
                       memory_log, burst, authOk, touches, instance, constructed>>
        /\ UNCHANGED <<permVars, in_flight>>

\* The cancelled task receives CancelledError in its sleep and leaves its
\* loop.
TaskExit ==
    /\ \E i \in 1 .. Len(tasks) :
           /\ tasks[i] = "cancelling"
           /\ tasks' = [tasks EXCEPT ![i] = "done"]
    /\ ret' = [op |-> "none", value |-> instance, raised |-> FALSE]
    /\ UNCHANGED <<is_initialized, cleanup_task, stopping, instance, constructed>>
    /\ UNCHANGED <<now, minute_windows, hour_windows, locked_agents, sessions,
                   memory_log, burst, authOk, touches>>
    /\ UNCHANGED <<permVars, in_flight>>

\* The task awaited has finished: stop() and cleanup() run to their end.
CleanupReturn ==
    /\ stopping
    /\ tasks[cleanup_task] = "done"
    /\ CommitMgr(cleanup_return(Mgr))
    /\ stopping' = FALSE
    /\ ret' = [op |-> "cleanup", value |-> instance, raised |-> FALSE]
    /\ UNCHANGED <<now, minute_windows, hour_windows, locked_agents, sessions,
                   memory_log, burst, authOk, touches, instance, constructed>>
    /\ UNCHANGED <<permVars, in_flight>>

\* A sweep cycle of a task that sleeps.
TaskSweep ==
    /\ \E i \in 1 .. Len(tasks) : tasks[i] = "sleeping"
    /\ Sweep

\* A request of an agent without a session, once the manager exists.
RequestSession(agent_id) ==
    /\ instance # NoInstance
    /\ agent_id \notin DOMAIN sessions
    /\ CreateSession(agent_id, agent_id)

\* A process from its start: no manager yet.
InitProcess ==
    /\ InitComponents
    /\ instance = NoInstance
    /\ constructed = 0
    /\ is_initialized = FALSE
    /\ cleanup_task = NoTask
    /\ tasks = <<>>
    /\ stopping = FALSE
    /\ utcnow = 0
    /\ in_flight = <<>>
    /\ agents_table = EmptyMap
    /\ role_templates_table = EmptyMap
    /\ _agent_cache = EmptyMap
    /\ _role_cache = EmptyMap
    /\ articles_table = <<>>
    /\ result = NoPermResult

NextManager ==
    \/ Construct
    \/ GetInstance
    \/ Initialize
    \/ Cleanup
    \/ TaskExit
    \/ CleanupReturn
    \/ TaskSweep
    \/ Tick(Hour)
    \/ Tick(Minute)
    \/ \E a \in Callers : RequestSession(a)

\* The manager constructed, initialized and cleaned up while sessions are
\* created and time passes.
SpecManager == InitProcess /\ [][NextManager]_vars

\* C22: however get_instance() and the constructor are called, at most one
\* SecurityManager is ever constructed, it is what SecurityManager.instance
\* holds from then on and what every get_instance() returns, and a
\* constructor call made while it exists raises and leaves it in place.
C22_Singleton ==
    /\ [](/\ constructed <= 1
          /\ instance \in {NoInstance, 1}
          /\ instance # NoInstance <=> constructed = 1
          /\ ret.op = "get_instance" => ret.value = 1 /\ instance = 1 /\ ~ret.raised)
    /\ [][/\ instance # NoInstance => instance' = instance
          /\ (Construct /\ instance # NoInstance) =>
                 ret'.raised /\ constructed' = constructed]_vars

\* A constructor call has raised after get_instance() made the instance.
C22_Witness ==
    /\ ret.op = "SecurityManager"
    /\ ret.raised
    /\ instance = 1
    /\ constructed = 1
    /\ is_initialized

\* The sweep tasks that have not finished.
LiveTasks == {i \in 1 .. Len(tasks) : tasks[i] # "done"}

\* What initialize() and cleanup() can write.
ManagerState == <<is_initialized, cleanup_task, tasks, sessions, memory_log,
                  minute_windows, hour_windows, locked_agents>>

\* C23: with initialize() and cleanup() called one after the other, at most
\* one sweep task is unfinished at any time; between the calls an unfinished
\* sweep task exists exactly when is_initialized is true, and it is the one
\* cleanup_task names; an initialize() of an initialized manager and a
\* cleanup() of one that is not change nothing; when cleanup() returns every
\* sweep task has finished; and no session is removed while is_initialized
\* is false.
C23_InitializeCleanup ==
    /\ [](/\ Cardinality(LiveTasks) <= 1
          /\ ~stopping => /\ is_initialized <=> LiveTasks # {}
                          /\ is_initialized <=> cleanup_task # NoTask
                          /\ is_initialized => tasks[cleanup_task] = "sleeping"
          /\ ret.op = "cleanup" => LiveTasks = {} /\ ~is_initialized /\ ~stopping)
    /\ [][/\ (Initialize /\ is_initialized) => UNCHANGED ManagerState
          /\ (Cleanup /\ ~is_initialized) => UNCHANGED ManagerState /\ ~stopping'
          /\ ~is_initialized => DOMAIN sessions \subseteq DOMAIN sessions']_vars

\* The manager initialized a second time after a cleanup(): the first sweep
\* task has finished, the second one sleeps, and a session is open.
C23_Witness ==
    /\ ret.op = "initialize"
    /\ is_initialized
    /\ tasks = <<"done", "sleeping">>
    /\ cleanup_task = 2
    /\ sessions # EmptyMap

----------------------------------------------------------------------------
(* RateLimiter.get_agent_status as a read.                                 *)

\* C24: get_agent_status(A) leaves A's minute queue, A's hour queue, the set
\* of agents with window entries and the lockout map as they were.
C24_StatusIsPureRead ==
    [][\A a \in Callers :
           GetAgentStatus(a) =>
               /\ Get(minute_windows', a, <<>>) = Get(minute_windows, a, <<>>)
               /\ Get(hour_windows', a, <<>>) = Get(hour_windows, a, <<>>)
               /\ DOMAIN minute_windows' = DOMAIN minute_windows
               /\ DOMAIN hour_windows' = DOMAIN hour_windows
               /\ locked_agents' = locked_agents]_vars

\* The part of C24 that holds: the lockout map and every other agent's
\* queues are left alone, and A's queues lose nothing that is still inside
\* its window.
C24_StatusOnlyTrims ==
    [][\A a \in Callers :
           GetAgentStatus(a) =>
               /\ locked_agents' = locked_agents
               /\ minute_windows'[a] = PopOld(Get(minute_windows, a, <<>>), now - Minute)
               /\ hour_windows'[a] = PopOld(Get(hour_windows, a, <<>>), now - Hour)
               /\ \A b \in DOMAIN minute_windows \ {a} :
                      minute_windows'[b] = minute_windows[b]]_vars

----------------------------------------------------------------------------
(* check_permission beside check_permission_detailed: one call of either,  *)
(* with the same arguments, on the same store.                             *)

\* Restricted with a value of allowed_categories that is no list.
MalformedScope ==
    (CanSubmit :> TRUE) @@ ("allowed_categories" :> NotAListOfCategories) @@
    ("allowed_tags" :> {TagA}) @@
    ("quota_limits" :> [daily_articles |-> 1, monthly_articles |-> 2,
                        working_hours |-> WorkingHours])

\* Restricted with a value of allowed_tags that is no list.
MalformedTags ==
    (CanSubmit :> TRUE) @@ ("allowed_categories" :> {"tech"}) @@
    ("allowed_tags" :> NotAListOfTags)

PairAgentRows ==
    {AgentRow(st, p, None, EmptyMap) :
         st \in Statuses, p \in {EmptyMap, SubmitOnly, Restricted, MalformedScope,
                                 MalformedTags}}
    \cup {AgentRow("active", SubmitOnly, r, EmptyMap) : r \in TemplateIds}

\* A Wednesday at noon or in the evening, the day's article counted or not,
\* and at most one lookup that raises.
PairEnvs ==
    {Env(f, d, d, 2, t, Articles) :
         f \in {{}, {"get_agent"}, {"agent"}, {"role"}, {"daily"}, {"monthly"},
                {"timezone"}, {"article"}},
         d \in {0, 1}, t \in {12 * 3600, 20 * 3600}}

PairCalls ==
    [op : {"call"}, agent : Callers, permission : Permissions,
     check_ownership : BOOLEAN, check_quota : BOOLEAN, kwargs : KwargsValues,
     env : PairEnvs]

\* The store holds a row, or none, for the caller and an active role
\* template; the arguments of the call are drawn.
InitPair ==
    /\ InitSecurity
    /\ utcnow = 0
    /\ in_flight = <<>>
    /\ agents_table \in {EmptyMap} \cup {(a :> row) : a \in Callers, row \in PairAgentRows}
    /\ role_templates_table \in
           {(id :> RoleTemplate(Restricted, TRUE)) : id \in TemplateIds}
    /\ _agent_cache = EmptyMap
    /\ _role_cache = EmptyMap
    /\ articles_table = <<>>
    /\ result \in PairCalls

PairCheckPermission ==
    /\ result.op = "call"
    /\ CheckPermission(result.agent, result.permission, result.check_ownership,
                       result.check_quota, result.kwargs, result.env)

PairCheckPermissionDetailed ==
    /\ result.op = "call"
    /\ CheckPermissionDetailed(result.agent, result.permission, result.check_ownership,
                               result.check_quota, result.kwargs, result.env)

NextPair ==
    \/ PairCheckPermission
    \/ PairCheckPermissionDetailed

SpecPair == InitPair /\ [][NextPair]_vars

\* What the other form returns for the call drawn, on the store as it is.
BooleanForCall ==
    check_permission(PSt, result.agent, result.permission, result.check_ownership,
                     result.check_quota, result.kwargs, utcnow, result.env).allowed

DetailedForCall ==
    check_permission_detailed(PSt, result.agent, result.permission,
                              result.check_ownership, result.check_quota,
                              result.kwargs, utcnow, result.env).res

\* The row and the permissions the steps of the call read.
CallAgent == _get_agent(PSt, result.agent, utcnow, result.env.fail)
CallPermissions ==
    get_effective_permissions(CallAgent.st, result.agent, result.env.fail).permissions

\* The step at which the detailed form's reason says the call was denied.
StepOfReason(reason) ==
    IF reason \in {"not_found", "inactive", "locked"} THEN "status"
    ELSE IF reason \in {"no_permissions", "missing_permission"} THEN "permission"
    ELSE IF reason \in {"daily_quota_exceeded", "monthly_quota_exceeded"} THEN "quota"
    ELSE IF reason = "outside_working_hours" THEN "working_hours"
    ELSE IF reason \in {"ownership_error", "article_missing", "not_owner"} THEN "ownership"
    ELSE IF reason \in {"scope_error", "category_not_allowed", "tags_not_allowed"}
    THEN "scope"
    ELSE "none"

\* The first step, in the order of the claim, that does not pass.
FirstFailingStep ==
    IF ~CallAgent.found \/ CallAgent.agent.status # "active" THEN "status"
    ELSE IF ~Get(CallPermissions, result.permission, FALSE) THEN "permission"
    ELSE IF result.check_quota
            /\ ~_check_quota_limits_detailed(CallPermissions, result.env).allowed
    THEN "quota"
    ELSE IF ~_check_working_hours(CallPermissions, result.env) THEN "working_hours"
    ELSE IF /\ result.check_ownership
            /\ result.kwargs # EmptyMap
            /\ ~_check_ownership_detailed(result.agent, result.kwargs, result.env).allowed
    THEN "ownership"
    ELSE IF ~_check_scope_restrictions_detailed(CallPermissions, result.kwargs).allowed
    THEN "scope"
    ELSE "none"

\* C25: check_permission returns true exactly when check_permission_detailed
\* returns allowed = true for the same call on the same store, contexts in
\* which a step raises included, and the detailed result names the first
\* failing step in the order status, permission, quota, working hours,
\* ownership, scope.
C25_BooleanEqualsDetailed ==
    [][/\ PairCheckPermission => result'.allowed = DetailedForCall.allowed
       /\ PairCheckPermissionDetailed =>
              /\ result'.allowed = BooleanForCall
              /\ StepOfReason(result'.reason) = FirstFailingStep]_vars

\* The part of C25 that holds: the two forms agree whenever the scope step
\* does not raise, and the detailed form always names the first failing
\* step.
C25_EqualUnlessScopeRaises ==
    [][/\ (PairCheckPermission /\ ~ScopeRaises(CallPermissions, result.kwargs)) =>
              result'.allowed = DetailedForCall.allowed
       /\ PairCheckPermissionDetailed =>
              /\ StepOfReason(result'.reason) = FirstFailingStep
              /\ result'.allowed <=> FirstFailingStep = "none"]_vars

\* The lookups and evaluations of the call drawn that raise, each where the
\* call asks for its step.
AgentLookupRaises ==
    /\ "get_agent" \in result.env.fail
    /\ result.agent \notin DOMAIN _agent_cache

PermissionLookupRaises ==
    /\ CallAgent.found
    /\ \/ "agent" \in result.env.fail
       \/ /\ "role" \in result.env.fail
          /\ CallAgent.agent.role_template_id # None
          /\ CallAgent.agent.role_template_id \notin DOMAIN _role_cache

CountLookupRaises ==
    LET quota_limits == QuotaLimits(CallPermissions)
    IN  /\ result.check_quota
        /\ \/ /\ Get(quota_limits, "daily_articles", 0) > 0
              /\ "daily" \in result.env.fail
           \/ /\ Get(quota_limits, "monthly_articles", 0) > 0
              /\ "monthly" \in result.env.fail

OwnershipLookupRaises ==
    /\ result.check_ownership
    /\ result.kwargs # EmptyMap
    /\ ~FalsyId(Get(result.kwargs, "article_id", NoArticleId))
    /\ "article" \in result.env.fail

ScopeEvaluationRaises == ScopeRaises(CallPermissions, result.kwargs)

\* C27: a call of check_permission or check_permission_detailed in which the
\* agent lookup, the effective-permission lookup, a record-count lookup, the
\* ownership lookup or the scope evaluation raises ends in a denial.
C27_ErrorsDeny ==
    [][((PairCheckPermission \/ PairCheckPermissionDetailed)
        /\ (\/ AgentLookupRaises
            \/ PermissionLookupRaises
            \/ CountLookupRaises
            \/ OwnershipLookupRaises
            \/ ScopeEvaluationRaises))
       => ~result'.allowed]_vars

\* The part of C27 that holds: an error in the agent lookup, in the lookup
\* of the agent's row by the role resolver or in the ownership lookup
\* denies in both forms, and an error in the scope evaluation denies in the
\* detailed form.
C27_ErrorsThatDeny ==
    [][/\ ((PairCheckPermission \/ PairCheckPermissionDetailed)
           /\ (\/ AgentLookupRaises
               \/ CallAgent.found /\ "agent" \in result.env.fail
               \/ OwnershipLookupRaises))
          => ~result'.allowed
       /\ (PairCheckPermissionDetailed /\ ScopeEvaluationRaises) => ~result'.allowed]_vars

----------------------------------------------------------------------------
(* require_edit_permission, the guard of edit_article.                     *)

CanEditOthers == "can_edit_others_articles"

\* The wrapper of require_edit_permission up to the call of the tool.
require_edit_permission(s, agent_id, kwargs, t, env) ==
    LET e == get_effective_permissions(s, agent_id, env.fail)
        effective_permissions == e.permissions
        has_edit_own == Get(effective_permissions, CanEditOwn, FALSE)
        has_edit_others == Get(effective_permissions, CanEditOthers, FALSE)
        c == check_permission(e.st, agent_id, CanEditOwn, TRUE, FALSE, kwargs, t, env)
        own_only == has_edit_own /\ ~has_edit_others
    IN  IF Falsy(agent_id)
        THEN [passed |-> FALSE, reason |-> "no_access_token", st |-> s]
        ELSE IF ~(has_edit_own \/ has_edit_others)
        THEN [passed |-> FALSE, reason |-> "no_edit_permission", st |-> e.st]
        ELSE IF own_only /\ ~c.allowed
        THEN [passed |-> FALSE, reason |-> "own_articles_only", st |-> c.st]
        ELSE IF ~_check_scope_restrictions(effective_permissions, kwargs)
        THEN [passed |-> FALSE, reason |-> "scope_not_allowed",
              st |-> IF own_only THEN c.st ELSE e.st]
        ELSE [passed |-> TRUE, reason |-> "granted",
              st |-> IF own_only THEN c.st ELSE e.st]

\* Editors: of their own articles, of the articles of others, of both; and
\* the same within working hours, a daily quota of one and the category
\* "tech".
EditorLimits ==
    ("allowed_categories" :> {"tech"}) @@
    ("quota_limits" :> [daily_articles |-> 1, working_hours |-> WorkingHours])

EditorMaps ==
    LET grants == {(CanEditOwn :> TRUE), (CanEditOthers :> TRUE),
                   (CanEditOwn :> TRUE) @@ (CanEditOthers :> TRUE), SubmitOnly}
    IN  grants \cup {g @@ EditorLimits : g \in grants}

EditorRows == {AgentRow(st, p, None, EmptyMap) : st \in Statuses, p \in EditorMaps}

\* The caller's article, another agent's, and one with no row, in an
\* allowed category or another one.
EditKwargs ==
    {("article_id" :> id) @@ ("category" :> c) :
         id \in 1 .. (Len(Articles) + 1), c \in {"tech", "news"}}

\* A Wednesday or a Sunday, at noon or in the evening, the day's article
\* submitted or not, the ownership lookup raising or not.
EditEnvs ==
    {Env(f, d, d, w, t, Articles) :
         f \in {{}, {"article"}}, d \in {0, 1}, w \in {2, 6},
         t \in {12 * 3600, 20 * 3600}}

InitEdit ==
    /\ InitSecurity
    /\ utcnow = 0
    /\ in_flight = <<>>
    /\ agents_table \in {(a :> row) : a \in Callers, row \in EditorRows}
    /\ role_templates_table = EmptyMap
    /\ _agent_cache = EmptyMap
    /\ _role_cache = EmptyMap
    /\ articles_table = <<>>
    /\ result \in [op : {"call"}, agent : Callers, kwargs : EditKwargs, env : EditEnvs]

\* A call of edit_article reaches its guard.
RequireEditPermission ==
    LET r == require_edit_permission(PSt, result.agent, result.kwargs, utcnow, result.env)
    IN  /\ result.op = "call"
        /\ CommitPerm(r.st)
        /\ result' = [NoPermResult EXCEPT !.op = "require_edit_permission",
                                          !.agent = result.agent,
                                          !.allowed = r.passed,
                                          !.reason = r.reason,
                                          !.fail = result.env.fail]
        /\ UNCHANGED <<utcnow, articles_table>>
        /\ UNCHANGED <<secVars, mgrVars, in_flight>>

NextEdit == RequireEditPermission

SpecEdit == InitEdit /\ [][NextEdit]_vars

\* The permissions of the caller of the call drawn.
EditorPermissions == agents_table[result.agent].permissions

\* The active caller holds an edit permission, its request passes the
\* ownership requirement, which only an agent without edit-others has, and
\* the scope restriction.
EditPassesOwnershipAndScope ==
    LET own == Get(EditorPermissions, CanEditOwn, FALSE)
        others == Get(EditorPermissions, CanEditOthers, FALSE)
    IN  /\ agents_table[result.agent].status = "active"
        /\ own \/ others
        /\ others \/ _check_ownership(result.agent, result.kwargs, result.env)
        /\ _check_scope_restrictions(EditorPermissions, result.kwargs)

\* C26: the guard allows every edit of an active agent that holds an edit
\* permission and passes the ownership requirement and the scope
\* restriction, whatever its working hours, the time and its counts are.
C26_EditIgnoresHoursAndQuota ==
    [][(RequireEditPermission /\ EditPassesOwnershipAndScope) => result'.allowed]_vars

\* The part of C26 that holds: no count is read, an agent holding
\* edit-others is allowed at any time, and an agent holding edit-own only
\* is allowed exactly within its working hours.
C26_EditOwnOnlyWithinHours ==
    [][(RequireEditPermission /\ EditPassesOwnershipAndScope) =>
           (result'.allowed <=>
               \/ Get(EditorPermissions, CanEditOthers, FALSE)
               \/ _check_working_hours(EditorPermissions, result.env))]_vars

----------------------------------------------------------------------------
(* AuthenticationMiddleware.on_call_tool                                   *)

\* get_access_token() without a token
NoToken == [client_id |-> "none", scopes |-> {}]

AccessToken(client_id, scopes) == [client_id |-> client_id, scopes |-> scopes]

\* self.tool_permissions.get(name, []): edit_article is not in the map
tool_permissions(name) ==
    IF name = "submit_article" THEN {"article:submit"}
    ELSE IF name = "approve_article" THEN {"article:approve"}
    ELSE {}

\* _check_permissions: the scopes required and missing
_check_permissions(access_token, required_scopes) ==
    IF access_token.scopes = {} THEN required_scopes
    ELSE required_scopes \ access_token.scopes

\* _log_auth_failure: an entry only when the manager exists
_log_auth_failure(s, inst, t, tool_name, reason, agent_id) ==
    IF inst # NoInstance
    THEN log_audit_event(s, t, agent_id, "authentication_failure", tool_name, FALSE,
                         [reason |-> reason])
    ELSE s

\* _log_tool_access
_log_tool_access(s, inst, t, tool_name, agent_id) ==
    IF inst # NoInstance
    THEN log_audit_event(s, t, agent_id, "tool_access", tool_name, TRUE,
                         [sanitized_args |-> TRUE])
    ELSE s

\* A middleware that goes on after a refusal of the security manager.
OnCallToolIgnoringRefusal(s, inst, n, development_mode, name, access_token, t, fault) ==
    LET g == get_instance(inst, n)
        r == authenticate_request(s, access_token.client_id, access_token.client_id, t, fault)
    IN  [called |-> TRUE, raised |-> FALSE,
         auth |-> IF access_token = NoToken THEN "none" ELSE IF r.ok THEN "true" ELSE "false",
         instance |-> g.instance, constructed |-> g.constructed,
         st |-> IF access_token = NoToken THEN s ELSE r.st]

\* called: call_next(context) was awaited; raised: ToolError; auth: what
\* authenticate_request returned, "none" when it was not called.
on_call_tool(s, inst, n, development_mode, name, access_token, t, fault) ==
    LET g == get_instance(inst, n)
        r == authenticate_request(s, access_token.client_id, access_token.client_id, t, fault)
        required_scopes == tool_permissions(name)
        missing_scopes == _check_permissions(access_token, required_scopes)
        s_access == _log_tool_access(r.st, g.instance, t, name, access_token.client_id)
    IN  IF development_mode
        THEN [called |-> TRUE, raised |-> FALSE, auth |-> "none",
              instance |-> inst, constructed |-> n, st |-> s]
        ELSE IF access_token = NoToken
        THEN [called |-> FALSE, raised |-> TRUE, auth |-> "none",
              instance |-> inst, constructed |-> n,
              st |-> _log_auth_failure(s, inst, t, name, "no_token", "unknown")]
        ELSE IF ~r.ok
        THEN [called |-> FALSE, raised |-> TRUE, auth |-> "false",
              instance |-> g.instance, constructed |-> g.constructed,
              st |-> _log_auth_failure(r.st, g.instance, t, name, "refused",
                                       access_token.client_id)]
        ELSE IF required_scopes # {} /\ missing_scopes # {}
        THEN [called |-> FALSE, raised |-> TRUE, auth |-> "true",
              instance |-> g.instance, constructed |-> g.constructed,
              st |-> _log_auth_failure(r.st, g.instance, t, name, "missing_scopes",
                                       access_token.client_id)]
        ELSE [called |-> TRUE, raised |-> FALSE, auth |-> "true",
              instance |-> g.instance, constructed |-> g.constructed,
              st |-> log_audit_event(s_access, t, access_token.client_id, "tool_call",
                                     name, TRUE, [arguments_count |-> 0])]

Tools == {"submit_article", "edit_article"}

Tokens ==
    {NoToken} \cup {AccessToken(a, sc) : a \in Callers,
                                         sc \in {{}, {"article:list", "article:submit"}}}

OnCallTool(development_mode, name, access_token, fault) ==
    LET r == on_call_tool(St, instance, constructed, development_mode, name,
                          access_token, now, fault)
        agent_id == access_token.client_id
    IN  /\ Commit(r.st)
        /\ instance' = r.instance
        /\ constructed' = r.constructed
        /\ ret' = [op |-> "on_call_tool", agent |-> agent_id, ok |-> r.called,
                   why |-> r.auth, expired |-> FALSE, raised |-> r.raised,
                   tool |-> name, development_mode |-> development_mode,
                   fault |-> fault]
        /\ authOk' = IF r.auth = "true"
                     THEN [authOk EXCEPT ![agent_id] = @ + 1] ELSE authOk
        /\ touches' = IF r.st.sessions # sessions THEN Touched(agent_id, now) ELSE touches
        /\ burst' = IF r.auth = "none" THEN burst
                    ELSE [burst EXCEPT ![agent_id] = NoBurst]
        /\ UNCHANGED <<now, is_initialized, cleanup_task, tasks, stopping>>
        /\ UNCHANGED <<permVars, in_flight>>

NextMiddleware ==
    \/ Tick(Hour)
    \/ \E name \in Tools : OnCallTool(TRUE, name, AccessToken("a1", {}), "none")
    \/ \E name \in Tools : OnCallTool(FALSE, name, NoToken, "none")
    \/ \E name \in Tools, tok \in Tokens \ {NoToken}, f \in {"none", "session"} :
           OnCallTool(FALSE, name, tok, f)

\* Tool calls through the middleware of a process that has no manager yet.
SpecMiddleware == InitProcess /\ [][NextMiddleware]_vars

\* C28: outside development mode a tool call goes on to call_next only if
\* a token was found, authenticate_request returned true for the token's
\* client and no scope the tool requires is missing from the token; and
\* when authenticate_request returns false, call_next is not called and the
\* last audit entry is an authentication_failure of that client for the
\* tool.
C28_MiddlewareGate ==
    [][\A name \in Tools, tok \in Tokens, f \in {"none", "session"} :
          (/\ ret'.op = "on_call_tool"
           /\ ret'.tool = name
           /\ ret'.agent = tok.client_id
           /\ ret'.fault = f
           /\ OnCallTool(FALSE, name, tok, f)) =>
              LET auth == authenticate_request(St, tok.client_id, tok.client_id, now, f).ok
              IN  /\ ret'.ok => /\ tok # NoToken
                                /\ auth
                                /\ tool_permissions(name) \subseteq tok.scopes
                  /\ (tok # NoToken /\ ~auth) =>
                         /\ ~ret'.ok
                         /\ ret'.raised
                         /\ memory_log' # <<>>
                         /\ Last(memory_log').action = "authentication_failure"
                         /\ Last(memory_log').agent_id = tok.client_id
                         /\ Last(memory_log').resource = name
                         /\ ~Last(memory_log').success]_vars

\* A call with a token and the scope of the tool is refused by the rate
\* limiter: the tool does not run and the failure is the last audit entry.
C28_Witness ==
    /\ ret.op = "on_call_tool"
    /\ ~ret.development_mode
    /\ ret.why = "false"
    /\ ret.raised /\ ~ret.ok
    /\ ret.agent \in DOMAIN locked_agents
    /\ Last(memory_log).action = "authentication_failure"

----------------------------------------------------------------------------
(* The decision rule of check_rate_limit, checked under Spec.              *)

\* The entries of a queue that are not older than the window.
NotOlderThan(queue, t, window) == SelectSeq(queue, LAMBDA x : t - x <= window)

\* C29: a check_rate_limit call of an agent that is not in an active
\* lockout allows exactly when, the entries older than their window set
\* aside, the minute queue is below requests_per_minute and the hour queue
\* below requests_per_hour; an allowed call appends the time to both
\* queues and writes no audit entry; a denied call appends nothing, locks
\* the agent out until lockout_duration_minutes from now and appends one
\* failed rate_limit_violation entry of the agent.
C29_DecisionRule ==
    [][\A a \in Callers :
          (~InLockout(St, a, now) /\ CheckRateLimit(a)) =>
              LET mq == NotOlderThan(Get(minute_windows, a, <<>>), now, Minute)
                  hq == NotOlderThan(Get(hour_windows, a, <<>>), now, Hour)
                  allow == Len(mq) < RequestsPerMinute /\ Len(hq) < RequestsPerHour
              IN  /\ ret'.ok = allow
                  /\ allow => /\ minute_windows'[a] = Append(mq, now)
                              /\ hour_windows'[a] = Append(hq, now)
                              /\ memory_log' = memory_log
                              /\ a \notin DOMAIN locked_agents'
                  /\ ~allow => /\ minute_windows'[a] = mq
                               /\ hour_windows'[a] = hq
                               /\ locked_agents'[a] = now + LockoutDurationMinutes * Minute
                               /\ memory_log' = log_event(memory_log, Last(memory_log'))
                               /\ Last(memory_log').action = "rate_limit_violation"
                               /\ Last(memory_log').agent_id = a
                               /\ ~Last(memory_log').success]_vars

\* A call is denied for the hour cap alone: the minute queue is below its
\* cap, and the agent is locked out from the time of the call.
C29_Witness ==
    \E a \in Callers :
        /\ ret.op = "check_rate_limit" /\ ret.agent = a
        /\ ~ret.ok
        /\ ret.why = "hour"
        /\ Len(minute_windows[a]) < RequestsPerMinute
        /\ Len(hour_windows[a]) = RequestsPerHour
        /\ locked_agents[a] = now + LockoutDurationMinutes * Minute
        /\ Last(memory_log).action = "rate_limit_violation"

----------------------------------------------------------------------------
(* Quota limits of a role template.                                        *)

\* A row of role_templates with its quota_limits column.
RoleTemplateWithQuota(permissions, quota_limits, is_active) ==
    [permissions |-> permissions, quota_limits |-> quota_limits, is_active |-> is_active]

\* SYSTEM_ROLE_TEMPLATES["content_creator"], with a daily cap of N
ContentCreator(N) ==
    RoleTemplateWithQuota(
        (CanSubmit :> TRUE) @@ (CanEditOwn :> TRUE) @@ (CanEditOthers :> FALSE) @@
        ("allowed_categories" :> {}) @@ ("allowed_tags" :> {}),
        [daily_articles |-> N, monthly_articles |-> 100,
         working_hours |-> [enabled |-> FALSE]],
        TRUE)

\* Agents assigned the template, with no override.
TemplateAgentRows ==
    {AgentRow(st, p, id, EmptyMap) :
         st \in Statuses, p \in {EmptyMap, SubmitOnly}, id \in TemplateIds}

InitTemplateQuota ==
    /\ InitSecurity
    /\ utcnow = 0
    /\ in_flight = <<>>
    /\ agents_table \in {(a :> row) : a \in Callers, row \in TemplateAgentRows}
    /\ role_templates_table \in
           {(id :> ContentCreator(N)) : id \in TemplateIds, N \in 1 .. MaxCap}
    /\ _agent_cache = EmptyMap
    /\ _role_cache = EmptyMap
    /\ articles_table = <<>>
    /\ result = NoPermResult

\* check_permission(agent_id, can_submit_articles, check_quota=True) beside
\* the articles table
CheckSubmitQuota(agent_id) ==
    CheckPermission(agent_id, CanSubmit, FALSE, TRUE, EmptyMap,
                    StoreEnv(articles_table, agent_id, utcnow, {}))

NextTemplateQuota ==
    \/ \E t \in UtcClockValues : UtcTick(t)
    \/ \E a \in Callers, input \in SubmitInputs : Submit(a, input, {})
    \/ \E a \in Callers : CheckSubmitQuota(a)

\* Agents of a role template submitting articles as time passes.
SpecTemplateQuota == InitTemplateQuota /\ [][NextTemplateQuota]_vars

\* The daily cap of the template of an active agent that has no override.
TemplateDailyCap(a) ==
    role_templates_table[agents_table[a].role_template_id].quota_limits.daily_articles

UsesTemplateQuota(a) ==
    /\ a \in DOMAIN agents_table
    /\ agents_table[a].status = "active"
    /\ agents_table[a].role_template_id \in DOMAIN role_templates_table
    /\ agents_table[a].permissions_override = EmptyMap
    /\ TemplateDailyCap(a) > 0

\* C30: an agent of a role template whose quota limits set daily_articles
\* to N > 0 is denied by the submit guard and by
\* check_permission(check_quota=True) once it has N articles of today.
C30_TemplateQuotaEnforced ==
    [][\A a \in Callers :
          (/\ UsesTemplateQuota(a)
           /\ CountToday(articles_table, a, utcnow) >= TemplateDailyCap(a)) =>
              /\ \A input \in SubmitInputs :
                     Submit(a, input, {}) => result'.outcome = "denied"
              /\ CheckSubmitQuota(a) => ~result'.allowed]_vars

\* What the code does instead: the quota limits of the template are never
\* read, so every valid submission of such an agent succeeds and every
\* quota check passes, whatever the agent has submitted today.
C30_TemplateQuotaIgnored ==
    [][\A a \in Callers :
          UsesTemplateQuota(a) =>
              /\ \A input \in SubmitInputs :
                     (ValidSubmission(input) /\ Submit(a, input, {})) =>
                         result'.outcome = "success"
              /\ CheckSubmitQuota(a) => result'.allowed]_vars

----------------------------------------------------------------------------
(* The record counts of the quota step.                                    *)

\* The most rows of the articles table the counts are taken over.
MaxCounted == 2

\* Instants around the turn of a month: noon of the last day of a month,
\* then 00:00 and 08:00 of day 1 and 08:00, 12:00 and 20:00 of day 2 of
\* the next.
CountClockValues ==
    {(DaysPerMonth - 1) * SecondsPerDay + 12 * 3600,
     DaysPerMonth * SecondsPerDay,
     DaysPerMonth * SecondsPerDay + 8 * 3600,
     (DaysPerMonth + 1) * SecondsPerDay + 8 * 3600,
     (DaysPerMonth + 1) * SecondsPerDay + 12 * 3600,
     (DaysPerMonth + 1) * SecondsPerDay + 20 * 3600}

\* A month start that is the midnight of day 1.
MonthStartMidnight(t) == (Day(t) - (Day(t) % DaysPerMonth)) * SecondsPerDay

\* The articles table holds rows of any agents, none made after the clock.
InitCounts ==
    /\ InitSecurity
    /\ utcnow \in CountClockValues
    /\ in_flight = <<>>
    /\ agents_table = EmptyMap
    /\ role_templates_table = EmptyMap
    /\ _agent_cache = EmptyMap
    /\ _role_cache = EmptyMap
    /\ articles_table \in
           UNION {[1 .. n -> {NewArticle(a, c) : a \in Agents,
                                                c \in {c \in CountClockValues : c <= utcnow}}] :
                      n \in 0 .. MaxCounted}
    /\ result = NoPermResult

GetDailyArticleCount(agent_id) ==
    /\ result' = [op |-> "_get_daily_article_count", agent |-> agent_id,
                  count |-> CountToday(articles_table, agent_id, utcnow)]
    /\ UNCHANGED <<utcnow, agents_table, role_templates_table, _agent_cache, _role_cache,
                   articles_table>>
    /\ UNCHANGED <<secVars, mgrVars, in_flight>>

GetMonthlyArticleCount(agent_id) ==
    /\ result' = [op |-> "_get_monthly_article_count", agent |-> agent_id,
                  count |-> CountThisMonth(articles_table, agent_id, utcnow)]
    /\ UNCHANGED <<utcnow, agents_table, role_templates_table, _agent_cache, _role_cache,
                   articles_table>>
    /\ UNCHANGED <<secVars, mgrVars, in_flight>>

NextCounts ==
    \/ \E a \in Callers : GetDailyArticleCount(a)
    \/ \E a \in Callers : GetMonthlyArticleCount(a)

SpecCounts == InitCounts /\ [][NextCounts]_vars

\* The rows of the agent made in the calendar month, and on the calendar
\* day, of the clock.
MadeThisMonth(a) ==
    {i \in 1 .. Len(articles_table) :
        /\ articles_table[i].submitting_agent_id = a
        /\ Day(articles_table[i].created_at) \div DaysPerMonth = Day(utcnow) \div DaysPerMonth}

MadeToday(a) ==
    {i \in 1 .. Len(articles_table) :
        /\ articles_table[i].submitting_agent_id = a
        /\ Day(articles_table[i].created_at) = Day(utcnow)}

\* C31: the monthly count is the number of the agent's rows made in the
\* current calendar month, whatever the time of day of the check, and the
\* daily count the number of its rows made on the current calendar day.
C31_CountWindows ==
    /\ result.op = "_get_monthly_article_count" =>
           result.count = Cardinality(MadeThisMonth(result.agent))
    /\ result.op = "_get_daily_article_count" =>
           result.count = Cardinality(MadeToday(result.agent))

\* The part of C31 that holds: the daily count is exact, and the monthly
\* count is the number of rows made in the month at or after the time of
\* day of the check on day 1.
C31_MonthlyFromTimeOfDay ==
    /\ result.op = "_get_monthly_article_count" =>
           result.count =
               Cardinality({i \in MadeThisMonth(result.agent) :
                               articles_table[i].created_at >=
                                   MonthStartMidnight(utcnow) + TimeOfDay(utcnow)})
    /\ result.op = "_get_daily_article_count" =>
           result.count = Cardinality(MadeToday(result.agent))

----------------------------------------------------------------------------
(* The composite guards and the status of the agent.                       *)

NextGuards ==
    \/ RequireEditPermission
    \/ \E a \in Callers, input \in SubmitInputs : Submit(a, input, {})

\* Calls of edit_article and submit_article by an agent of any status.
SpecGuards == InitEdit /\ [][NextGuards]_vars

\* C32: for an agent whose stored status is not active, the submit guard
\* and the edit guard deny and the tool does not run, whatever the agent's
\* permissions grant.
C32_GuardsDenyNonActive ==
    [][\A a \in Callers :
          agents_table[a].status # "active" =>
              /\ \A input \in SubmitInputs :
                     Submit(a, input, {}) =>
                         result'.outcome = "denied" /\ articles_table' = articles_table
              /\ (RequireEditPermission /\ result.agent = a) => ~result'.allowed]_vars

\* The part of C32 that holds: the edit guard denies a non-active agent
\* that does not hold edit-others.
C32_EditOwnOnlyDenied ==
    [][\A a \in Callers :
          (/\ agents_table[a].status # "active"
           /\ ~Get(agents_table[a].permissions, CanEditOthers, FALSE)
           /\ RequireEditPermission
           /\ result.agent = a) => ~result'.allowed]_vars

\* An inactive agent has submitted an article.
C32_InactiveSubmits ==
    \E a \in Callers :
        /\ agents_table[a].status = "inactive"
        /\ result.op = "submit_article"
        /\ result.outcome = "success"
        /\ articles_table # <<>>

\* A locked agent holding edit-others has passed the edit guard.
C32_LockedEdits ==
    \E a \in Callers :
        /\ agents_table[a].status = "locked"
        /\ result.op = "require_edit_permission"
        /\ result.allowed


----------------------------------------------------------------------------
\* Concurrent submit_article calls.  The guard of a call
\* (require_submit_permission, with its count lookup) and the insert of the
\* article (`await session.commit()`) are separate awaits of one coroutine, so
\* other calls run between them.  A call is in flight from the moment its
\* guard and its input validation have passed until its commit.

MaxInFlight == 2

\* The guard and the validation of one call: tools/articles.py, the decorator
\* and the lines up to `async with get_session()`.
BeginSubmit(agent_id, input) ==
    LET guard == require_submit_permission(PSt, agent_id, input, utcnow,
                                           StoreEnv(articles_table, agent_id, utcnow, {}))
        outcome == IF ~guard.passed THEN "denied"
                   ELSE IF ~ValidSubmission(input) THEN "validation_error"
                   ELSE "in_flight"
    IN  /\ Len(in_flight) < MaxInFlight
        /\ CommitPerm(guard.st)
        /\ in_flight' = IF outcome = "in_flight" THEN Append(in_flight, agent_id)
                        ELSE in_flight
        /\ result' = [op |-> "submit_article", agent |-> agent_id,
                      outcome |-> outcome, reason |-> guard.reason]
        /\ UNCHANGED <<utcnow, articles_table>>
        /\ UNCHANGED <<secVars, mgrVars>>

\* The insert of a call in flight: session.add(article), session.commit().
CommitSubmit(i) ==
    /\ i \in 1 .. Len(in_flight)
    /\ Len(articles_table) < MaxArticles
    /\ articles_table' = Append(articles_table, NewArticle(in_flight[i], utcnow))
    /\ in_flight' = SubSeq(in_flight, 1, i - 1) \o SubSeq(in_flight, i + 1, Len(in_flight))
    /\ result' = [op |-> "submit_article", agent |-> in_flight[i],
                  outcome |-> "success", reason |-> ""]
    /\ UNCHANGED <<utcnow, agents_table, role_templates_table, _agent_cache, _role_cache>>
    /\ UNCHANGED <<secVars, mgrVars>>

NextConcurrentSubmit ==
    \/ \E t \in UtcClockValues : UtcTick(t)
    \/ \E a \in Callers, input \in SubmitInputs : BeginSubmit(a, input)
    \/ \E i \in 1 .. MaxInFlight : CommitSubmit(i)

SpecConcurrentSubmit == InitSubmit /\ [][NextConcurrentSubmit]_vars

\* The articles of agent a created on day d.
MadeOnDay(a, d) ==
    {i \in 1 .. Len(articles_table) :
        /\ articles_table[i].submitting_agent_id = a
        /\ Day(articles_table[i].created_at) = d}

\* C33: under every interleaving of concurrent submit calls of one agent, the
\* number of articles the agent creates in one calendar day never exceeds its
\* daily_articles cap N > 0.
C33_DailyCapUnderConcurrency ==
    \A a \in Callers :
        (/\ "quota_limits" \in DOMAIN agents_table[a].permissions
         /\ agents_table[a].status = "active") =>
            \A t \in UtcClockValues :
                Cardinality(MadeOnDay(a, Day(t)))
                    <= agents_table[a].permissions["quota_limits"]["daily_articles"]

\* What does hold: a call whose guard runs when the agent's articles of the
\* day have reached the cap is denied, whatever is in flight.
C33_GuardDeniesAtCap ==
    [][\A a \in Callers, input \in SubmitInputs :
          (/\ "quota_limits" \in DOMAIN agents_table[a].permissions
           /\ Cardinality(MadeOnDay(a, Day(utcnow)))
                  >= agents_table[a].permissions["quota_limits"]["daily_articles"]
           /\ BeginSubmit(a, input)) =>
              result'.outcome = "denied"]_vars


----------------------------------------------------------------------------
\* The decorators require_any_permission and require_all_permissions.  The
\* protected operation `func` either returns or raises; `executed` counts the
\* times the wrapper awaits it during one guarded call.

MaxListed == 2

RECURSIVE AnyPermissionLoop(_, _, _, _, _, _, _, _, _)

\* `for permission in permissions:` of require_any_permission, from the i-th
\* permission on.  `return await func(...)` stands inside the inner try, so an
\* exception of func is caught by `except Exception: continue` like an
\* exception of the check.
AnyPermissionLoop(s, agent_id, permissions, i, executed, func_raises, kwargs, t, env) ==
    IF i > Len(permissions)
    THEN [executed |-> executed, outcome |-> "denied", st |-> s]
    ELSE LET c == check_permission(s, agent_id, permissions[i], TRUE, FALSE, kwargs, t, env)
         IN  IF ~c.allowed
             THEN AnyPermissionLoop(c.st, agent_id, permissions, i + 1, executed,
                                    func_raises, kwargs, t, env)
             ELSE IF func_raises
             THEN AnyPermissionLoop(c.st, agent_id, permissions, i + 1, executed + 1,
                                    func_raises, kwargs, t, env)
             ELSE [executed |-> executed + 1, outcome |-> "returned", st |-> c.st]

require_any_permission(s, agent_id, permissions, func_raises, kwargs, t, env) ==
    IF Falsy(agent_id)
    THEN [executed |-> 0, outcome |-> "denied", st |-> s]
    ELSE AnyPermissionLoop(s, agent_id, permissions, 1, 0, func_raises, kwargs, t, env)

RECURSIVE AllPermissionsLoop(_, _, _, _, _, _, _, _)

\* `for permission in permissions:` of require_all_permissions, from the i-th
\* permission on, and the call of func after the loop.
AllPermissionsLoop(s, agent_id, permissions, i, func_raises, kwargs, t, env) ==
    IF i > Len(permissions)
    THEN [executed |-> 1, outcome |-> IF func_raises THEN "denied" ELSE "returned",
          st |-> s]
    ELSE LET c == check_permission(s, agent_id, permissions[i], TRUE, FALSE, kwargs, t, env)
         IN  IF ~c.allowed
             THEN [executed |-> 0, outcome |-> "denied", st |-> c.st]
             ELSE AllPermissionsLoop(c.st, agent_id, permissions, i + 1, func_raises,
                                     kwargs, t, env)

require_all_permissions(s, agent_id, permissions, func_raises, kwargs, t, env) ==
    IF Falsy(agent_id)
    THEN [executed |-> 0, outcome |-> "denied", st |-> s]
    ELSE AllPermissionsLoop(s, agent_id, permissions, 1, func_raises, kwargs, t, env)

Listed ==
    LET names == {CanSubmit, CanEditOwn, CanEditOthers}
    IN  UNION {[1 .. n -> names] : n \in 0 .. MaxListed}

DecoratorEnvs == {Env(f, 0, 0, 2, 12 * 3600, Articles) : f \in {{}, {"article"}}}

InitDecorators ==
    /\ InitSecurity
    /\ utcnow = 0
    /\ in_flight = <<>>
    /\ agents_table \in {(a :> row) : a \in Callers, row \in EditorRows}
    /\ role_templates_table = EmptyMap
    /\ _agent_cache = EmptyMap
    /\ _role_cache = EmptyMap
    /\ articles_table = <<>>
    /\ result \in [op : {"call"}, agent : Callers \cup {None}, permissions : Listed,
                   func_raises : BOOLEAN, kwargs : {EmptyMap, ("article_id" :> 1)},
                   env : DecoratorEnvs]

RequireAnyPermission ==
    LET r == require_any_permission(PSt, result.agent, result.permissions,
                                    result.func_raises, result.kwargs, utcnow, result.env)
    IN  /\ result.op = "call"
        /\ CommitPerm(r.st)
        /\ result' = [op |-> "require_any_permission", agent |-> result.agent,
                      permissions |-> result.permissions,
                      func_raises |-> result.func_raises,
                      executed |-> r.executed, outcome |-> r.outcome]
        /\ UNCHANGED <<utcnow, articles_table>>
        /\ UNCHANGED <<secVars, mgrVars, in_flight>>

RequireAllPermissions ==
    LET r == require_all_permissions(PSt, result.agent, result.permissions,
                                     result.func_raises, result.kwargs, utcnow, result.env)
    IN  /\ result.op = "call"
        /\ CommitPerm(r.st)
        /\ result' = [op |-> "require_all_permissions", agent |-> result.agent,
                      permissions |-> result.permissions,
                      func_raises |-> result.func_raises,
                      executed |-> r.executed, outcome |-> r.outcome]
        /\ UNCHANGED <<utcnow, articles_table>>
        /\ UNCHANGED <<secVars, mgrVars, in_flight>>

NextDecorators == RequireAnyPermission \/ RequireAllPermissions

SpecDecorators == InitDecorators /\ [][NextDecorators]_vars

\* The listed permissions whose check succeeds for the drawn call.
GrantedListed ==
    {i \in 1 .. Len(result.permissions) :
        /\ ~Falsy(result.agent)
        /\ check_permission(PSt, result.agent, result.permissions[i], TRUE, FALSE,
                            result.kwargs, utcnow, result.env).allowed}

\* C34: under require_any_permission the protected operation is executed iff
\* at least one listed check succeeds, and at most once per guarded call, also
\* when the operation raises and more than one listed permission is granted;
\* under require_all_permissions it is executed iff every listed check
\* succeeds.
C34_ExecutedOncePerGuardedCall ==
    [][/\ RequireAnyPermission =>
              /\ result'.executed <= 1
              /\ result'.executed >= 1 <=> GrantedListed # {}
       /\ RequireAllPermissions =>
              /\ result'.executed <= 1
              /\ result'.executed >= 1 <=>
                     (/\ ~Falsy(result.agent)
                      /\ Cardinality(GrantedListed) = Len(result.permissions))]_vars

\* What does hold: require_any_permission executes the operation once when it
\* returns, and once per granted listed permission when it raises;
\* require_all_permissions executes it once iff every listed check succeeds.
C34_ExecutedPerGrantedPermission ==
    [][/\ RequireAnyPermission =>
              result'.executed = IF result.func_raises THEN Cardinality(GrantedListed)
                                 ELSE IF GrantedListed # {} THEN 1 ELSE 0
       /\ RequireAllPermissions =>
              result'.executed = IF /\ ~Falsy(result.agent)
                                    /\ Cardinality(GrantedListed) = Len(result.permissions)
                                 THEN 1 ELSE 0]_vars

\* The operation raised and was run a second time.
C34_ExecutedTwice ==
    /\ result.op = "require_any_permission"
    /\ result.func_raises
    /\ result.executed = 2


----------------------------------------------------------------------------
\* Two agents calling the security manager.

\* Both agents make requests and open their sessions during the first minute;
\* from then on the caller authenticates and ends its session.  Time runs until
\* a lockout of the first minute has expired.
NextIsolation ==
    \/ now < LockoutDurationMinutes * Minute /\ Tick(Minute)
    \/ \E a \in Agents : now < Minute /\ CheckRateLimit(a)
    \/ \E a \in Callers : now >= Minute /\ AuthenticateRequest(a, "none")
    \/ \E a \in Agents : now < Minute /\ RequestSession(a)
    \/ \E a \in Callers : now >= Minute /\ EndSession(a)

SpecIsolation == Init /\ [][NextIsolation]_vars

\* What the security manager holds for one agent: the two queues, the
\* lockout expiry if there is one, the session record if there is one.
AgentState(mw, hw, locked, sess, a) ==
    [minute |-> Get(mw, a, <<>>),
     hour |-> Get(hw, a, <<>>),
     lockout |-> {locked[x] : x \in DOMAIN locked \cap {a}},
     session |-> {sess[x] : x \in DOMAIN sess \cap {a}}]

\* C35: an authenticate_request, check_rate_limit, create_session or
\* end_session call for agent A never changes the minute queue, the hour
\* queue, the lockout expiry or the session record of another agent B, and
\* the decision a request of B would get is the same before and after it.
C35_PerAgentIsolation ==
    [][\A A \in Agents :
          (/\ ret'.agent = A
           /\ \/ ret'.op = "check_rate_limit" /\ CheckRateLimit(A)
              \/ ret'.op = "authenticate_request" /\ AuthenticateRequest(A, "none")
              \/ ret'.op = "create_session" /\ CreateSession(A, A)
              \/ ret'.op = "end_session" /\ EndSession(A)) =>
              \A B \in Agents \ {A} :
                  /\ AgentState(minute_windows', hour_windows', locked_agents', sessions', B)
                         = AgentState(minute_windows, hour_windows, locked_agents, sessions, B)
                  /\ LET before == check_rate_limit(St, B, now)
                         after == check_rate_limit(
                                      [mw |-> minute_windows', hw |-> hour_windows',
                                       locked |-> locked_agents', sessions |-> sessions',
                                       log |-> memory_log'], B, now)
                     IN  after.ok = before.ok /\ after.why = before.why]_vars

\* A call of a1 is refused because a1 is locked out while a2 holds
\* timestamps and a session and is not locked.
C35_Witness ==
    /\ ret.op \in {"check_rate_limit", "authenticate_request"}
    /\ ret.agent = "a1" /\ ~ret.ok
    /\ "a1" \in DOMAIN locked_agents /\ now < locked_agents["a1"]
    /\ "a2" \notin DOMAIN locked_agents
    /\ Get(minute_windows, "a2", <<>>) # <<>>
    /\ "a2" \in DOMAIN sessions


----------------------------------------------------------------------------
\* The timestamps of a queue that lie in the trailing window [t - window, t].
InTrailing(queue, t, window) ==
    {i \in 1 .. Len(queue) : queue[i] >= t - window /\ queue[i] <= t}

\* C36: with a clock that never goes back, for every agent at every instant
\* the accepted requests of the trailing minute are at most
\* requests_per_minute and those of the trailing hour at most
\* requests_per_hour; the queue lengths never exceed their caps.  The hour
\* queue holds every request accepted during the last hour, so the trailing
\* minute is counted on it as well.
C36_RateLimitBound ==
    \A a \in Agents :
        LET minute_window == Get(minute_windows, a, <<>>)
            hour_window == Get(hour_windows, a, <<>>)
        IN  /\ Len(minute_window) <= RequestsPerMinute
            /\ Len(hour_window) <= RequestsPerHour
            /\ Cardinality(InTrailing(minute_window, now, Minute)) <= RequestsPerMinute
            /\ Cardinality(InTrailing(hour_window, now, Minute)) <= RequestsPerMinute
            /\ Cardinality(InTrailing(hour_window, now, Hour)) <= RequestsPerHour

\* A request refused at the minute cap: the trailing minute holds
\* requests_per_minute accepted requests, on both queues.
C36_Witness ==
    \E a \in Callers :
        /\ ret.op = "check_rate_limit" /\ ret.agent = a
        /\ ~ret.ok /\ ret.why = "minute"
        /\ Cardinality(InTrailing(minute_windows[a], now, Minute)) = RequestsPerMinute
        /\ Cardinality(InTrailing(hour_windows[a], now, Minute)) = RequestsPerMinute
        /\ Len(hour_windows[a]) = RequestsPerHour


----------------------------------------------------------------------------
\* SecurityManager.get_security_status: the counts of the report (the session
\* details and the audit summary are not modelled).
get_security_status(s) ==
    [active_sessions |-> Cardinality(DOMAIN s.sessions),
     rate_limiting |-> [locked_agents |-> Cardinality(DOMAIN s.locked),
                        lockout_duration_minutes |-> LockoutDurationMinutes]]

\* The agents a check_rate_limit issued now would refuse because of lockout.
LockedNow == {a \in DOMAIN locked_agents : InLockout(St, a, now)}

\* C37: at any time get_agent_status(A).is_locked is true iff a
\* check_rate_limit(A) issued at that instant would be refused because of
\* lockout, and the locked_agents count of get_security_status is the number
\* of agents whose lockout has not yet expired.
C37_ReportedLockoutMatches ==
    /\ \A a \in Agents :
           get_agent_status(St, a, now).status.is_locked <=> InLockout(St, a, now)
    /\ get_security_status(St).rate_limiting.locked_agents = Cardinality(LockedNow)

\* What does hold: the reports go by the entries of locked_agents, expired or
\* not, so every agent in lockout is reported locked and the count is never
\* below the number of agents in lockout.
C37_ReportedLockoutIsEntry ==
    /\ \A a \in Agents :
           /\ get_agent_status(St, a, now).status.is_locked <=> a \in DOMAIN locked_agents
           /\ InLockout(St, a, now) => get_agent_status(St, a, now).status.is_locked
    /\ get_security_status(St).rate_limiting.locked_agents
           = Cardinality(DOMAIN locked_agents)
    /\ get_security_status(St).rate_limiting.locked_agents >= Cardinality(LockedNow)

\* A lockout has expired, the agent has made no request since, and a status
\* call has just reported it locked.
C37_ExpiredReportedLocked ==
    \E a \in Callers :
        /\ ret.op = "get_agent_status" /\ ret.agent = a /\ ret.ok
        /\ a \in DOMAIN locked_agents /\ now >= locked_agents[a]
        /\ check_rate_limit(St, a, now).ok


----------------------------------------------------------------------------
\* The age of the cached record of an agent.
CacheAge(a) == utcnow - _agent_cache[a].timestamp

\* The lookup re-reads the agent from the store and replaces the cache entry.
ReReads(a) ==
    LET g == _get_agent(PSt, a, utcnow, {})
    IN  a \in DOMAIN agents_table =>
            /\ g.found /\ g.agent = agents_table[a]
            /\ g.st.acache[a] = [agent |-> agents_table[a], timestamp |-> utcnow]

\* The lookup serves the cached record and leaves the cache as it is.
ServesCached(a) ==
    LET g == _get_agent(PSt, a, utcnow, {})
    IN  g.found /\ g.agent = _agent_cache[a].agent /\ g.st = PSt

\* C38: a cached agent record is served only while its age is below the
\* 300-second TTL; for every age of 300 seconds or more, ages of more than 24
\* hours included, the next lookup re-reads the agent from the store and
\* replaces the cache entry.
C38_CacheServedOnlyBelowTtl ==
    \A a \in DOMAIN _agent_cache :
        IF CacheAge(a) < CacheTtl THEN ServesCached(a) ELSE ReReads(a)

\* What does hold: the age is compared through timedelta.seconds, the seconds
\* of the age within its last day.
C38_CacheServedBySecondsOfDay ==
    \A a \in DOMAIN _agent_cache :
        IF TimedeltaSeconds(CacheAge(a)) < CacheTtl THEN ServesCached(a) ELSE ReReads(a)

\* A record cached more than a day ago, changed in the store since, is served.
C38_StaleServedAfterADay ==
    \E a \in DOMAIN _agent_cache \cap DOMAIN agents_table :
        /\ CacheAge(a) > SecondsPerDay
        /\ agents_table[a] # _agent_cache[a].agent
        /\ ServesCached(a)


----------------------------------------------------------------------------
\* Sessions opened, refreshed, ended by hand and ended by the sweep.

\* The clock goes from 0 to the session timeout and one minute past it; the
\* caller ends its session by hand, the sweep ends those of both agents.
NextLifecycle ==
    \/ Tick(Hour)
    \/ now = SessionTimeoutMinutes * Minute /\ Tick(Minute)
    \/ \E a \in Agents : CreateSession(a, a)
    \/ \E a \in Callers : EndSession(a)
    \/ Sweep

SpecLifecycle == Init /\ [][NextLifecycle]_vars

IsSessionEvent(e, a) ==
    e.agent_id = a /\ e.action \in {"session_created", "session_ended"}

\* The session events of an agent in the audit log, oldest first.
SessionEvents(a) ==
    LET Keep(e) == IsSessionEvent(e, a)
    IN  SelectSeq(memory_log, Keep)

\* The session events of an agent alternate, end with session_created
\* exactly when the agent has a session, and begin with session_created as
\* long as nothing has been evicted from the log.
Alternates(a) ==
    LET events == SessionEvents(a)
    IN  /\ \A i \in 1 .. Len(events) - 1 : events[i].action # events[i + 1].action
        /\ events # <<>> =>
               (events[Len(events)].action = "session_created" <=> a \in DOMAIN sessions)
        /\ (events # <<>> /\ Len(memory_log) < MaxMemoryEntries) =>
               events[1].action = "session_created"
        /\ (events = <<>> /\ Len(memory_log) < MaxMemoryEntries) =>
               a \notin DOMAIN sessions

\* C39: in the audit events of one agent session_created and session_ended
\* strictly alternate, starting with session_created; a refresh of an
\* existing session emits neither; end_session for an agent with no session
\* emits nothing and changes nothing; each session_ended carries the
\* request_count accumulated since the matching session_created.
C39_SessionLifecycle ==
    /\ [](\A a \in Agents : Alternates(a))
    /\ [][\A a \in Agents :
              /\ (ret'.op = "create_session" /\ ret'.agent = a /\ a \in DOMAIN sessions) =>
                     /\ memory_log' = memory_log
                     /\ sessions'[a].request_count = sessions[a].request_count + 1
              /\ (ret'.op = "end_session" /\ ret'.agent = a /\ a \notin DOMAIN sessions) =>
                     UNCHANGED <<minute_windows, hour_windows, locked_agents, sessions,
                                 memory_log>>
              /\ (/\ ret'.op \in {"end_session", "_cleanup_expired_sessions"}
                  /\ a \in DOMAIN sessions /\ a \notin DOMAIN sessions') =>
                     \E i \in 1 .. Len(memory_log') :
                         /\ memory_log'[i] = SessionEndedEntry(a)
                         /\ memory_log'[i].details.request_count = touches[a].n]_vars

\* A whole cycle in the log: a session of the caller opened, refreshed, ended
\* with request_count 2, and opened again.
C39_Witness ==
    /\ Len(SessionEvents("a1")) = 3
    /\ SessionEvents("a1")[2].action = "session_ended"
    /\ SessionEvents("a1")[2].details.request_count = 2
    /\ "a1" \in DOMAIN sessions


----------------------------------------------------------------------------
\* The review workflow of tools/articles.py: approve_article, reject_article
\* and publish_article, called by an agent that passes the permission
\* decorator.  Rows of articles_table carry the status of the article.

\* models/article.py: the members of the enumeration and their values.
ArticleStatus ==
    [PENDING_REVIEW |-> "pending_review", PUBLISHING |-> "publishing",
     PUBLISHED |-> "published", PUBLISH_FAILED |-> "publish_failed",
     REJECTED |-> "rejected"]

\* ArticleStatus.<member> raises AttributeError when the enumeration has no
\* such member.
HasMember(member) == member \in DOMAIN ArticleStatus

ArticleRow(agent_id, status) ==
    [submitting_agent_id |-> agent_id, created_at |-> 0, status |-> status]

WorkflowReturn(code, status, articles) ==
    [code |-> code, status |-> status, articles |-> articles]

approve_article(articles, article_id) ==
    IF article_id \notin DOMAIN articles
    THEN WorkflowReturn("article_not_found", "", articles)
    ELSE IF articles[article_id].status # ArticleStatus["PENDING_REVIEW"]
    THEN WorkflowReturn("invalid_status", articles[article_id].status, articles)
    ELSE IF ~HasMember("APPROVED")
    THEN WorkflowReturn("internal_error", articles[article_id].status, articles)
    ELSE WorkflowReturn("success", ArticleStatus["APPROVED"],
                        [articles EXCEPT ![article_id].status = ArticleStatus["APPROVED"]])

reject_article(articles, article_id) ==
    IF article_id \notin DOMAIN articles
    THEN WorkflowReturn("article_not_found", "", articles)
    ELSE IF articles[article_id].status # ArticleStatus["PENDING_REVIEW"]
    THEN WorkflowReturn("invalid_status", articles[article_id].status, articles)
    ELSE WorkflowReturn("success", ArticleStatus["REJECTED"],
                        [articles EXCEPT ![article_id].status = ArticleStatus["REJECTED"]])

\* site_found: the target site exists; wp_ok: the WordPress call succeeds.
\* The status test names ArticleStatus.APPROVED before it reads the article's
\* status.
publish_article(articles, article_id, site_found, wp_ok) ==
    IF article_id \notin DOMAIN articles
    THEN WorkflowReturn("article_not_found", "", articles)
    ELSE IF ~HasMember("APPROVED")
    THEN WorkflowReturn("internal_error", articles[article_id].status, articles)
    ELSE IF articles[article_id].status
                \notin {ArticleStatus["APPROVED"], ArticleStatus["PUBLISH_FAILED"]}
    THEN WorkflowReturn("invalid_status", articles[article_id].status, articles)
    ELSE IF ~site_found
    THEN WorkflowReturn("internal_error", articles[article_id].status, articles)
    ELSE LET final == IF wp_ok THEN ArticleStatus["PUBLISHED"]
                      ELSE ArticleStatus["PUBLISH_FAILED"]
         IN  WorkflowReturn("success", final,
                            [articles EXCEPT ![article_id].status = final])

StatusValues == {ArticleStatus[m] : m \in DOMAIN ArticleStatus}

InitWorkflow ==
    /\ InitSecurity
    /\ utcnow = 0
    /\ in_flight = <<>>
    /\ agents_table = EmptyMap
    /\ role_templates_table = EmptyMap
    /\ _agent_cache = EmptyMap
    /\ _role_cache = EmptyMap
    /\ articles_table \in
           UNION {[1 .. n -> {ArticleRow(a, st) : a \in Callers, st \in StatusValues}] :
                      n \in 1 .. MaxArticles}
    /\ result = NoPermResult

WorkflowResult(op, article_id, r) ==
    [op |-> op, article_id |-> article_id, code |-> r.code, status |-> r.status]

ApproveArticle(article_id) ==
    LET r == approve_article(articles_table, article_id)
    IN  /\ articles_table' = r.articles
        /\ result' = WorkflowResult("approve_article", article_id, r)
        /\ UNCHANGED <<utcnow, agents_table, role_templates_table, _agent_cache, _role_cache>>
        /\ UNCHANGED <<secVars, mgrVars, in_flight>>

RejectArticle(article_id) ==
    LET r == reject_article(articles_table, article_id)
    IN  /\ articles_table' = r.articles
        /\ result' = WorkflowResult("reject_article", article_id, r)
        /\ UNCHANGED <<utcnow, agents_table, role_templates_table, _agent_cache, _role_cache>>
        /\ UNCHANGED <<secVars, mgrVars, in_flight>>

PublishArticle(article_id, site_found, wp_ok) ==
    LET r == publish_article(articles_table, article_id, site_found, wp_ok)
    IN  /\ articles_table' = r.articles
        /\ result' = WorkflowResult("publish_article", article_id, r)
        /\ UNCHANGED <<utcnow, agents_table, role_templates_table, _agent_cache, _role_cache>>
        /\ UNCHANGED <<secVars, mgrVars, in_flight>>

ArticleIds == 1 .. (MaxArticles + 1)

NextWorkflow ==
    \/ \E id \in ArticleIds : ApproveArticle(id)
    \/ \E id \in ArticleIds : RejectArticle(id)
    \/ \E id \in ArticleIds, site_found \in BOOLEAN, wp_ok \in BOOLEAN :
           PublishArticle(id, site_found, wp_ok)

SpecWorkflow == InitWorkflow /\ [][NextWorkflow]_vars

StatusOf(articles, id) == articles[id].status

\* C40: approve_article on an article in pending_review brings it to status
\* approved; publish_article on it (allowed only in status approved or
\* publish_failed) ends in published or publish_failed, never leaving it in
\* publishing; approve_article and reject_article on an article not in
\* pending_review return an invalid-status error and leave the status as it
\* is.
C40_ReviewWorkflow ==
    [][\A id \in DOMAIN articles_table :
          /\ (ApproveArticle(id) /\ StatusOf(articles_table, id) = "pending_review") =>
                 StatusOf(articles_table', id) = "approved"
          /\ \A site_found \in BOOLEAN, wp_ok \in BOOLEAN :
                 PublishArticle(id, site_found, wp_ok) =>
                     IF /\ StatusOf(articles_table, id) \in {"approved", "publish_failed"}
                        /\ site_found
                     THEN StatusOf(articles_table', id)
                              = IF wp_ok THEN "published" ELSE "publish_failed"
                     ELSE /\ StatusOf(articles_table', id) = StatusOf(articles_table, id)
                          /\ StatusOf(articles_table, id) \notin {"approved", "publish_failed"}
                                 => result'.code = "invalid_status"
          /\ ((ApproveArticle(id) \/ RejectArticle(id))
                  /\ StatusOf(articles_table, id) # "pending_review") =>
                 /\ result'.code = "invalid_status"
                 /\ articles_table' = articles_table]_vars

\* What does hold: approve_article and reject_article refuse an article that
\* is not in pending_review and reject_article rejects one that is; no call
\* brings an article to approved or publishing, approve_article of a pending
\* article and every publish_article of an existing article return an
\* internal error and change nothing.
C40_NothingIsApprovedOrPublished ==
    [][\A id \in DOMAIN articles_table :
          /\ ((ApproveArticle(id) \/ RejectArticle(id))
                  /\ StatusOf(articles_table, id) # "pending_review") =>
                 /\ result'.code = "invalid_status"
                 /\ articles_table' = articles_table
          /\ (RejectArticle(id) /\ StatusOf(articles_table, id) = "pending_review") =>
                 /\ result'.code = "success"
                 /\ articles_table' = [articles_table EXCEPT ![id].status = "rejected"]
          /\ (ApproveArticle(id) /\ StatusOf(articles_table, id) = "pending_review") =>
                 /\ result'.code = "internal_error"
                 /\ articles_table' = articles_table
          /\ \A site_found \in BOOLEAN, wp_ok \in BOOLEAN :
                 PublishArticle(id, site_found, wp_ok) =>
                     /\ result'.code = "internal_error"
                     /\ articles_table' = articles_table]_vars

\* A pending article after approve_article: still pending, internal error.
C40_ApproveFails ==
    /\ result.op = "approve_article"
    /\ result.code = "internal_error"
    /\ result.article_id \in DOMAIN articles_table
    /\ articles_table[result.article_id].status = "pending_review"

====
